---- MODULE Spec2Model ----
(***************************************************************************)
(* Functional model of the SMMU (stream table, context descriptors, TLB,   *)
(* page-table walker, command and event queues, statistics).               *)
(*                                                                         *)
(* Addresses and descriptor words are natural numbers below 2^31; every    *)
(* address and descriptor used here has bits 31..63 clear, so the 64-bit   *)
(* masks and shifts of the source are computed with \div and %.            *)
(***************************************************************************)
EXTENDS Integers, Sequences, FiniteSets, TLC

VARIABLES enabled, stream_table, context_descriptors,
          entries, lru_list, tlb_timestamp_counter, hit_count, miss_count,
          command_queue, event_queue, stats, timestamp_counter,
          memory, ret

vars == <<enabled, stream_table, context_descriptors,
          entries, lru_list, tlb_timestamp_counter, hit_count, miss_count,
          command_queue, event_queue, stats, timestamp_counter,
          memory, ret>>

tlbVars == <<entries, lru_list, tlb_timestamp_counter, hit_count, miss_count>>

cfgVars == <<enabled, stream_table, context_descriptors>>

(***************************************************************************)
(* Bounds of the model                                                     *)
(***************************************************************************)
\* config_.tlb_size
TlbSize == 2
\* config_.command_queue_size
CommandQueueSize == 2
\* config_.event_queue_size
EventQueueSize == 1
\* cap on stats_.total_translations (guards translate)
MaxTranslations == 2
\* cap on stats_.commands_processed (guards process_commands)
MaxCommands == 4
\* calls of TLB::insert in a run
MaxInserts == 3
\* calls of TLB::lookup in a run of the cache alone
MaxLookups == 1

(***************************************************************************)
(* Program constants                                                       *)
(***************************************************************************)
SIZE_4KB == 4096
SIZE_16KB == 16384
SIZE_64KB == 65536
SIZE_2MB == 2097152
SIZE_32MB == 33554432
SIZE_512MB == 536870912
SIZE_1GB == 1073741824
MEMORY_SIZE == 268435456

\* x >> n for x < 2^31
Shr(x, n) == IF n >= 31 THEN 0 ELSE x \div (2 ^ n)

(***************************************************************************)
(* Default-constructed records                                             *)
(***************************************************************************)
DefaultTranslationResult ==
  [success |-> FALSE, physical_addr |-> 0, memory_type |-> "NORMAL_WB",
   permission |-> "NONE", cacheable |-> TRUE, shareable |-> FALSE,
   fault_reason |-> ""]

DefaultStreamTableEntry ==
  [valid |-> FALSE, s1_enabled |-> FALSE, s2_enabled |-> FALSE,
   s1_context_ptr |-> 0, s2_translation_table_base |-> 0, vmid |-> 0,
   s1_format |-> 0, s2_granule |-> 0]

DefaultContextDescriptor ==
  [valid |-> FALSE, translation_table_base |-> 0, asid |-> 0,
   translation_granule |-> 0, ips |-> 0]

DefaultPageTableDescriptor ==
  [valid |-> FALSE, is_table |-> FALSE, address |-> 0, ap |-> "NONE",
   mem_attr |-> "NORMAL_WB", shareable |-> FALSE, access_flag |-> FALSE,
   dirty |-> FALSE, contiguous |-> FALSE,
   privileged_execute_never |-> FALSE, execute_never |-> FALSE]

DefaultEvent ==
  [fault_type |-> "NONE", stream_id |-> 0, asid |-> 0, vmid |-> 0, va |-> 0,
   description |-> "", timestamp |-> 0]

ZeroStatistics ==
  [total_translations |-> 0, tlb_hits |-> 0, tlb_misses |-> 0,
   page_table_walks |-> 0, translation_faults |-> 0, permission_faults |-> 0,
   commands_processed |-> 0, events_generated |-> 0]

(***************************************************************************)
(* Page-table walker                                                       *)
(***************************************************************************)
get_page_size(level, granule_size) ==
  IF granule_size = 12 THEN
    CASE level = 0 -> SIZE_512MB
      [] level = 1 -> SIZE_2MB
      [] level = 2 -> SIZE_4KB
      [] level = 3 -> SIZE_4KB
      [] OTHER -> SIZE_4KB
  ELSE IF granule_size = 14 THEN
    CASE level = 0 -> SIZE_1GB
      [] level = 1 -> SIZE_32MB
      [] level = 2 -> SIZE_16KB
      [] level = 3 -> SIZE_16KB
      [] OTHER -> SIZE_16KB
  ELSE IF granule_size = 16 THEN
    CASE level = 1 -> SIZE_512MB
      [] level = 2 -> SIZE_64KB
      [] level = 3 -> SIZE_64KB
      [] OTHER -> SIZE_64KB
  ELSE SIZE_4KB

\* index bits taken with the shift of level 3 at every level
get_index_bits_Level3Shift(va, level, granule_size) ==
  Shr(va, granule_size) % (2 ^ (granule_size - 3))

get_index_bits(va, level, granule_size) ==
  LET bits_per_level == granule_size - 3
      shift == granule_size + (3 - level) * bits_per_level
  IN  Shr(va, shift) % (2 ^ bits_per_level)

get_descriptor_address(table_base, index, granule_size) ==
  table_base + index * 8

\* a read that tests only the first byte against the end of the memory
read_descriptor_FirstByte(mem, addr) ==
  IF addr <= MEMORY_SIZE
  THEN [ok |-> TRUE, desc |-> IF addr \in DOMAIN mem THEN mem[addr] ELSE 0]
  ELSE [ok |-> FALSE, desc |-> 0]

\* SimpleMemoryModel::read of 8 bytes; memory_ is zero-filled where nothing
\* was written
read_descriptor(mem, addr) ==
  IF addr + 8 <= MEMORY_SIZE
  THEN [ok |-> TRUE, desc |-> IF addr \in DOMAIN mem THEN mem[addr] ELSE 0]
  ELSE [ok |-> FALSE, desc |-> 0]

\* a parse that lets bit 1 choose table or leaf at level 3 too
parse_descriptor_Bit1AtLevel3(desc, level, granule_size) ==
  IF desc % 2 = 0 THEN DefaultPageTableDescriptor
  ELSE [DefaultPageTableDescriptor EXCEPT
          !.valid = TRUE,
          !.is_table = (desc \div 2) % 2 = 1,
          !.address = desc - (desc % 4096),
          !.ap = "READ_WRITE"]

parse_descriptor(desc, level, granule_size) ==
  IF desc % 2 = 0 THEN DefaultPageTableDescriptor
  ELSE
    LET desc_type == (desc \div 2) % 2
        ap_bits == (desc \div 64) % 4
        sh == (desc \div 256) % 4
        attr_idx == (desc \div 4) % 8
    IN  [valid |-> TRUE,
         is_table |-> IF level < 3 THEN desc_type = 1 ELSE FALSE,
         address |-> desc - (desc % 4096),
         ap |-> IF ap_bits \in {0, 1} THEN "READ_WRITE" ELSE "READ_ONLY",
         mem_attr |-> CASE attr_idx = 0 -> "DEVICE_nGnRnE"
                        [] attr_idx = 1 -> "DEVICE_nGnRE"
                        [] attr_idx = 2 -> "NORMAL_NC"
                        [] attr_idx = 3 -> "NORMAL_WT"
                        [] OTHER -> "NORMAL_WB",
         shareable |-> sh # 0,
         access_flag |-> (desc \div 1024) % 2 = 1,
         dirty |-> Shr(desc, 51) % 2 = 1,
         contiguous |-> Shr(desc, 52) % 2 = 1,
         privileged_execute_never |-> Shr(desc, 53) % 2 = 1,
         execute_never |-> Shr(desc, 54) % 2 = 1]

RECURSIVE walk_table(_, _, _, _, _, _)
walk_table(mem, va, table_base, current_level, max_level, granule_size) ==
  IF current_level > max_level
  THEN [DefaultTranslationResult EXCEPT
          !.fault_reason = "Translation fault: exceeded max level"]
  ELSE
    LET index == get_index_bits(va, current_level, granule_size)
        desc_addr == get_descriptor_address(table_base, index, granule_size)
        rd == read_descriptor(mem, desc_addr)
        desc == parse_descriptor(rd.desc, current_level, granule_size)
    IN  IF ~rd.ok
        THEN [DefaultTranslationResult EXCEPT
                !.fault_reason = "Failed to read descriptor"]
        ELSE IF ~desc.valid
        THEN [DefaultTranslationResult EXCEPT
                !.fault_reason = "Translation fault: invalid descriptor"]
        ELSE IF ~desc.is_table
        THEN LET page_size == get_page_size(current_level, granule_size)
                 offset == va % page_size
             IN  [success |-> TRUE,
                  physical_addr |-> desc.address + offset,
                  memory_type |-> desc.mem_attr,
                  permission |-> desc.ap,
                  cacheable |-> desc.mem_attr \in {"NORMAL_WB", "NORMAL_WT"},
                  shareable |-> desc.shareable,
                  fault_reason |-> ""]
        ELSE walk_table(mem, va, desc.address, current_level + 1, max_level,
                        granule_size)

\* the number of descriptors walk_table reads from memory on this walk: one
\* per turn of its loop
RECURSIVE walk_reads(_, _, _, _, _, _)
walk_reads(mem, va, table_base, current_level, max_level, granule_size) ==
  IF current_level > max_level THEN 0
  ELSE
    LET index == get_index_bits(va, current_level, granule_size)
        desc_addr == get_descriptor_address(table_base, index, granule_size)
        rd == read_descriptor(mem, desc_addr)
        desc == parse_descriptor(rd.desc, current_level, granule_size)
    IN  IF rd.ok /\ desc.valid /\ desc.is_table
        THEN 1 + walk_reads(mem, va, desc.address, current_level + 1,
                            max_level, granule_size)
        ELSE 1

\* the descriptor reads of walk_table, one record per turn of its loop: the
\* level, the address read, whether the read was served, the value read
RECURSIVE walk_trace(_, _, _, _, _, _)
walk_trace(mem, va, table_base, current_level, max_level, granule_size) ==
  IF current_level > max_level THEN << >>
  ELSE
    LET index == get_index_bits(va, current_level, granule_size)
        desc_addr == get_descriptor_address(table_base, index, granule_size)
        rd == read_descriptor(mem, desc_addr)
        desc == parse_descriptor(rd.desc, current_level, granule_size)
    IN  << [level |-> current_level, addr |-> desc_addr, ok |-> rd.ok,
            desc |-> rd.desc] >>
        \o (IF rd.ok /\ desc.valid /\ desc.is_table
            THEN walk_trace(mem, va, desc.address, current_level + 1,
                            max_level, granule_size)
            ELSE << >>)

\* the descriptor reads of PageTableWalker::translate
walker_trace(mem, va, ttb, granule_size) ==
  IF granule_size \in {12, 14, 16}
  THEN walk_trace(mem, va, ttb, IF granule_size = 16 THEN 1 ELSE 0, 3,
                  granule_size)
  ELSE << >>

\* a walker that starts every granule at level 0
walker_reads_FromLevel0(mem, va, ttb, granule_size) ==
  IF granule_size \in {12, 14, 16}
  THEN walk_reads(mem, va, ttb, 0, 3, granule_size)
  ELSE 0

\* the number of descriptors PageTableWalker::translate reads
walker_reads(mem, va, ttb, granule_size) ==
  IF granule_size \in {12, 14, 16}
  THEN walk_reads(mem, va, ttb, IF granule_size = 16 THEN 1 ELSE 0, 3,
                  granule_size)
  ELSE 0

\* PageTableWalker::translate that walks any other granule as 4 KiB
walker_translate_Default4K(mem, va, ttb, granule_size) ==
  IF granule_size \in {14, 16}
  THEN walk_table(mem, va, ttb, IF granule_size = 16 THEN 1 ELSE 0, 3,
                  granule_size)
  ELSE walk_table(mem, va, ttb, 0, 3, 12)

\* PageTableWalker::translate: start_level and max_level by granule, then the
\* walk
walker_translate(mem, va, ttb, granule_size) ==
  IF granule_size \in {12, 14, 16}
  THEN walk_table(mem, va, ttb, IF granule_size = 16 THEN 1 ELSE 0, 3,
                  granule_size)
  ELSE [DefaultTranslationResult EXCEPT
          !.fault_reason = "Invalid granule size"]

(***************************************************************************)
(* Translation cache (TLB).  A TLB value is a record                       *)
(*   [entries, lru_list, timestamp_counter, hit_count, miss_count]         *)
(* entries maps TLBKey records to TLBEntry records; lru_list is the list   *)
(* of keys, most recently used first.                                      *)
(***************************************************************************)
\* a key that leaves the address space out of the comparison
TLBKey_NoAsid(va_base, stream_id, asid, vmid) ==
  [va_base |-> va_base, stream_id |-> stream_id, asid |-> 0, vmid |-> vmid]

TLBKey(va_base, stream_id, asid, vmid) ==
  [va_base |-> va_base, stream_id |-> stream_id, asid |-> asid, vmid |-> vmid]

get_page_base(va, page_size) == va - (va % page_size)

\* the probe order of lookup and invalidate_by_va
ProbeSizes == <<SIZE_1GB, SIZE_2MB, SIZE_64KB, SIZE_4KB>>

\* std::list::remove
ListRemove(list, key) == SelectSeq(list, LAMBDA k : k # key)

\* unordered_map::erase
MapErase(map, keys) == [k \in (DOMAIN map) \ keys |-> map[k]]

RECURSIVE lookup_probe(_, _, _, _, _, _)
lookup_probe(t, va, stream_id, asid, vmid, i) ==
  IF i > Len(ProbeSizes)
  THEN [found |-> FALSE,
        tlb |-> [t EXCEPT !.miss_count = @ + 1]]
  ELSE
    LET key == TLBKey(get_page_base(va, ProbeSizes[i]), stream_id, asid, vmid)
    IN  IF key \in DOMAIN t.entries
        THEN [found |-> TRUE,
              entry |-> t.entries[key],
              tlb |-> [t EXCEPT !.lru_list = <<key>> \o ListRemove(@, key),
                                !.hit_count = @ + 1]]
        ELSE lookup_probe(t, va, stream_id, asid, vmid, i + 1)

\* lookup that returns the entry found but leaves its place in the recency
\* list
lookup_NoTouch(t, va, stream_id, asid, vmid) ==
  IF lookup_probe(t, va, stream_id, asid, vmid, 1).found
  THEN [lookup_probe(t, va, stream_id, asid, vmid, 1)
          EXCEPT !.tlb.lru_list = t.lru_list]
  ELSE lookup_probe(t, va, stream_id, asid, vmid, 1)

lookup(t, va, stream_id, asid, vmid) ==
  lookup_probe(t, va, stream_id, asid, vmid, 1)

\* evict_lru that pops the recency list but leaves the map entry
evict_lru_ListOnly(t) ==
  IF t.lru_list = <<>> THEN t
  ELSE [t EXCEPT !.lru_list = SubSeq(@, 1, Len(@) - 1)]

\* evict_lru that takes the most recently used key
evict_lru_Newest(t) ==
  IF t.lru_list = <<>> THEN t
  ELSE [t EXCEPT !.lru_list = Tail(@),
                 !.entries = MapErase(@, {t.lru_list[1]})]

evict_lru(t) ==
  IF t.lru_list = <<>> THEN t
  ELSE LET lru_key == t.lru_list[Len(t.lru_list)]
       IN  [t EXCEPT !.lru_list = SubSeq(@, 1, Len(@) - 1),
                     !.entries = MapErase(@, {lru_key})]

\* insert keyed by the unaligned va
insert_UnalignedKey(t, entry, capacity) ==
  LET key == TLBKey(entry.va, entry.stream_id, entry.asid, entry.vmid)
      t1 == IF key \in DOMAIN t.entries
            THEN [t EXCEPT !.lru_list = ListRemove(@, key)]
            ELSE IF Cardinality(DOMAIN t.entries) >= capacity
            THEN evict_lru(t)
            ELSE t
      new_entry == [entry EXCEPT !.timestamp = t1.timestamp_counter]
  IN  [t1 EXCEPT !.timestamp_counter = @ + 1,
                 !.entries = [k \in (DOMAIN @) \cup {key} |->
                                IF k = key THEN new_entry ELSE @[k]],
                 !.lru_list = <<key>> \o @]

\* insert that pushes the key of an entry already cached to the front of the
\* recency list without removing its old position
insert_NoListRemove(t, entry, capacity) ==
  LET key == TLBKey(get_page_base(entry.va, entry.page_size),
                    entry.stream_id, entry.asid, entry.vmid)
      t1 == IF key \in DOMAIN t.entries
            THEN t
            ELSE IF Cardinality(DOMAIN t.entries) >= capacity
            THEN evict_lru(t)
            ELSE t
      new_entry == [entry EXCEPT !.timestamp = t1.timestamp_counter]
  IN  [t1 EXCEPT !.timestamp_counter = @ + 1,
                 !.entries = [k \in (DOMAIN @) \cup {key} |->
                                IF k = key THEN new_entry ELSE @[k]],
                 !.lru_list = <<key>> \o @]

insert(t, entry, capacity) ==
  LET key == TLBKey(get_page_base(entry.va, entry.page_size),
                    entry.stream_id, entry.asid, entry.vmid)
      t1 == IF key \in DOMAIN t.entries
            THEN [t EXCEPT !.lru_list = ListRemove(@, key)]
            ELSE IF Cardinality(DOMAIN t.entries) >= capacity
            THEN evict_lru(t)
            ELSE t
      new_entry == [entry EXCEPT !.timestamp = t1.timestamp_counter]
  IN  [t1 EXCEPT !.timestamp_counter = @ + 1,
                 !.entries = [k \in (DOMAIN @) \cup {key} |->
                                IF k = key THEN new_entry ELSE @[k]],
                 !.lru_list = <<key>> \o @]

\* common body of the invalidate_by_* loops: erase the entries under the keys
\* gone from the map and from the recency list
EraseKeys(t, gone) ==
  [t EXCEPT !.entries = MapErase(@, gone),
            !.lru_list = SelectSeq(@, LAMBDA k : k \notin gone)]

invalidate_all(t) ==
  [t EXCEPT !.entries = MapErase(@, DOMAIN @), !.lru_list = << >>]

\* invalidate_by_asid that updates the recency list but forgets the map
invalidate_by_asid_ListOnly(t, asid) ==
  [t EXCEPT !.lru_list =
     SelectSeq(@, LAMBDA k : t.entries[k].asid # asid)]

invalidate_by_asid(t, asid) ==
  EraseKeys(t, {k \in DOMAIN t.entries : t.entries[k].asid = asid})

\* invalidate_by_vmid that compares the asid field
invalidate_by_vmid_AsAsid(t, vmid) ==
  EraseKeys(t, {k \in DOMAIN t.entries : t.entries[k].asid = vmid})

invalidate_by_vmid(t, vmid) ==
  EraseKeys(t, {k \in DOMAIN t.entries : t.entries[k].vmid = vmid})

invalidate_by_stream(t, stream_id) ==
  EraseKeys(t, {k \in DOMAIN t.entries : t.entries[k].stream_id = stream_id})

\* invalidate_by_va that compares the 4 KiB base only
invalidate_by_va_4KOnly(t, va, asid) ==
  EraseKeys(t, {k \in DOMAIN t.entries :
                  /\ t.entries[k].asid = asid
                  /\ get_page_base(t.entries[k].va, t.entries[k].page_size)
                       = get_page_base(va, SIZE_4KB)})

RECURSIVE invalidate_by_va_probe(_, _, _, _)
invalidate_by_va_probe(t, va, asid, i) ==
  IF i > Len(ProbeSizes) THEN t
  ELSE LET va_base == get_page_base(va, ProbeSizes[i])
       IN  invalidate_by_va_probe(
             EraseKeys(t, {k \in DOMAIN t.entries :
                /\ t.entries[k].asid = asid
                /\ get_page_base(t.entries[k].va, t.entries[k].page_size)
                     = va_base}),
             va, asid, i + 1)

invalidate_by_va(t, va, asid) == invalidate_by_va_probe(t, va, asid, 1)

(***************************************************************************)
(* SMMU: configuration stores                                              *)
(***************************************************************************)
\* make_cd_key with the shift done in 32 bits: the upper half of stream_id
\* is lost
make_cd_key_Shift32(stream_id, asid) ==
  <<(stream_id % 65536) \div 32768,
    ((stream_id % 65536) % 32768) * 65536 + asid>>

\* (uint64_t(stream_id) << 16) | asid, a 48-bit value v given as the pair
\* <<v div 2^31, v mod 2^31>>; asid < 2^16, so the OR adds
make_cd_key(stream_id, asid) ==
  <<stream_id \div 32768, (stream_id % 32768) * 65536 + asid>>

\* get_stream_table_entry whose fallback record is marked valid
get_stream_table_entry_ValidDefault(table, stream_id) ==
  IF stream_id \in DOMAIN table THEN table[stream_id]
  ELSE [DefaultStreamTableEntry EXCEPT !.valid = TRUE]

get_stream_table_entry(table, stream_id) ==
  IF stream_id \in DOMAIN table THEN table[stream_id]
  ELSE DefaultStreamTableEntry

get_context_descriptor(cds, stream_id, asid) ==
  IF make_cd_key(stream_id, asid) \in DOMAIN cds
  THEN cds[make_cd_key(stream_id, asid)]
  ELSE DefaultContextDescriptor

(***************************************************************************)
(* SMMU: events.  The operators below act on a record                      *)
(*   m = [stats, event_queue, timestamp_counter]                           *)
(* holding the members a translation may update besides the TLB.           *)
(***************************************************************************)
\* generate_event that takes a timestamp for a dropped event too
generate_event_StampAll(m, fault_type, stream_id, asid, vmid, va, description) ==
  IF Len(m.event_queue) < EventQueueSize
  THEN [m EXCEPT
          !.event_queue = Append(@,
             [fault_type |-> fault_type, stream_id |-> stream_id,
              asid |-> asid, vmid |-> vmid, va |-> va,
              description |-> description,
              timestamp |-> m.timestamp_counter]),
          !.timestamp_counter = @ + 1,
          !.stats.events_generated = @ + 1]
  ELSE [m EXCEPT !.timestamp_counter = @ + 1]

\* generate_event with the bound off by one
generate_event_OffByOne(m, fault_type, stream_id, asid, vmid, va, description) ==
  IF Len(m.event_queue) <= EventQueueSize
  THEN [m EXCEPT
          !.event_queue = Append(@,
             [fault_type |-> fault_type, stream_id |-> stream_id,
              asid |-> asid, vmid |-> vmid, va |-> va,
              description |-> description,
              timestamp |-> m.timestamp_counter]),
          !.timestamp_counter = @ + 1,
          !.stats.events_generated = @ + 1]
  ELSE m

generate_event(m, fault_type, stream_id, asid, vmid, va, description) ==
  IF Len(m.event_queue) < EventQueueSize
  THEN [m EXCEPT
          !.event_queue = Append(@,
             [fault_type |-> fault_type, stream_id |-> stream_id,
              asid |-> asid, vmid |-> vmid, va |-> va,
              description |-> description,
              timestamp |-> m.timestamp_counter]),
          !.timestamp_counter = @ + 1,
          !.stats.events_generated = @ + 1]
  ELSE m

\* a fault path that emits the event but forgets the fault counter
RaiseFault_NoCount(m, stream_id, asid, vmid, va, description) ==
  generate_event(m, "TRANSLATION_FAULT", stream_id, asid, vmid, va,
                 description)

\* generate_event(...) followed by stats_.translation_faults++
RaiseFault(m, stream_id, asid, vmid, va, description) ==
  [generate_event(m, "TRANSLATION_FAULT", stream_id, asid, vmid, va,
                  description)
     EXCEPT !.stats.translation_faults = @ + 1]

\* a walk failure that counts the fault but emits no event
stage_walked_NoEvent(m, result, asid, vmid, va) ==
  IF ~result.success
  THEN [m |-> [m EXCEPT !.stats.page_table_walks = @ + 1,
                        !.stats.translation_faults = @ + 1],
        result |-> result]
  ELSE [m |-> [m EXCEPT !.stats.page_table_walks = @ + 1],
        result |-> result]

\* a stage that counts the walk only when it succeeded
stage_walked_CountSuccess(m, result, asid, vmid, va) ==
  IF ~result.success
  THEN [m |-> RaiseFault(m, 0, asid, vmid, va, result.fault_reason),
        result |-> result]
  ELSE [m |-> [m EXCEPT !.stats.page_table_walks = @ + 1],
        result |-> result]

\* the tail of translate_stage1 / translate_stage2 once the walker returned
\* result: page_table_walks is counted, a failed walk raises the fault
stage_walked(m, result, asid, vmid, va) ==
  IF ~result.success
  THEN [m |-> RaiseFault([m EXCEPT !.stats.page_table_walks = @ + 1],
                         0, asid, vmid, va, result.fault_reason),
        result |-> result]
  ELSE [m |-> [m EXCEPT !.stats.page_table_walks = @ + 1],
        result |-> result]

translate_stage1(m, mem, va, ste, cd) ==
  IF ~cd.valid
  THEN [m |-> RaiseFault(m, 0, cd.asid, ste.vmid, va,
                         "Invalid context descriptor"),
        result |-> [DefaultTranslationResult EXCEPT
                      !.fault_reason = "Invalid context descriptor"]]
  ELSE stage_walked(m,
                    walker_translate(mem, va, cd.translation_table_base,
                                     cd.translation_granule),
                    cd.asid, ste.vmid, va)

translate_stage2(m, mem, ipa, ste) ==
  IF ~ste.s2_enabled
  THEN [m |-> m,
        result |-> [DefaultTranslationResult EXCEPT
                      !.success = TRUE, !.physical_addr = ipa]]
  ELSE stage_walked(m,
                    walker_translate(mem, ipa, ste.s2_translation_table_base,
                                     ste.s2_granule),
                    0, ste.vmid, ipa)

(***************************************************************************)
(* SMMU::translate.  Takes and returns a record                            *)
(*   [m, tlb, result]                                                      *)
(* m as above, tlb the TLB value, result the TranslationResult returned.   *)
(***************************************************************************)
\* stage 2 attempted even after stage 1 failed
translate_after_stage1_Always(s1, mem, ste) ==
  IF ste.s2_enabled
  THEN translate_stage2(s1.m, mem, s1.result.physical_addr, ste)
  ELSE s1

\* stage 2 after stage 1 that keeps the attributes of the stage-1 result
translate_after_stage1_KeepAttrs(s1, mem, ste) ==
  IF s1.result.success /\ ste.s2_enabled
  THEN [m |-> translate_stage2(s1.m, mem, s1.result.physical_addr, ste).m,
        result |->
          [translate_stage2(s1.m, mem, s1.result.physical_addr, ste).result
             EXCEPT !.permission = s1.result.permission,
                    !.memory_type = s1.result.memory_type,
                    !.cacheable = s1.result.cacheable,
                    !.shareable = s1.result.shareable]]
  ELSE s1

\* stage 2 after a successful stage 1, when the stream enables both
translate_after_stage1(s1, mem, ste) ==
  IF s1.result.success /\ ste.s2_enabled
  THEN translate_stage2(s1.m, mem, s1.result.physical_addr, ste)
  ELSE s1

\* the stages the stream enables (at least one)
translate_stages(m, mem, va, ste, cd) ==
  IF ste.s1_enabled
  THEN translate_after_stage1(translate_stage1(m, mem, va, ste, cd), mem, ste)
  ELSE translate_stage2(m, mem, va, ste)

\* the end of a translate that caches the result of the stages even when
\* they failed
translate_fill_CacheFailures(r, t, ste, va, stream_id, asid, vmid) ==
  [m |-> r.m,
   tlb |-> insert(t,
                  [va |-> va, pa |-> r.result.physical_addr,
                   stream_id |-> stream_id, asid |-> asid, vmid |-> vmid,
                   page_size |-> SIZE_4KB,
                   memory_type |-> r.result.memory_type,
                   permission |-> r.result.permission,
                   cacheable |-> r.result.cacheable,
                   shareable |-> r.result.shareable,
                   stage |-> IF ste.s1_enabled THEN "STAGE1" ELSE "STAGE2",
                   timestamp |-> 0],
                  TlbSize),
   result |-> r.result]

\* the end of translate: r = [m, result] of the stages; a success is cached
translate_fill(r, t, ste, va, stream_id, asid, vmid) ==
  [m |-> r.m,
   tlb |-> IF r.result.success
           THEN insert(t,
                       [va |-> va, pa |-> r.result.physical_addr,
                        stream_id |-> stream_id, asid |-> asid,
                        vmid |-> vmid,
                        page_size |-> SIZE_4KB,
                        memory_type |-> r.result.memory_type,
                        permission |-> r.result.permission,
                        cacheable |-> r.result.cacheable,
                        shareable |-> r.result.shareable,
                        stage |-> IF ste.s1_enabled THEN "STAGE1"
                                  ELSE "STAGE2",
                        timestamp |-> 0],
                       TlbSize)
           ELSE t,
   result |-> r.result]

\* the path taken after a TLB miss
translate_miss(m, t, table, cds, mem, va, stream_id, asid, vmid) ==
  LET ste == get_stream_table_entry(table, stream_id)
  IN
  IF ~ste.valid
  THEN [m |-> RaiseFault(m, stream_id, asid, vmid, va,
                         "Invalid stream table entry"),
        tlb |-> t,
        result |-> [DefaultTranslationResult EXCEPT
                      !.fault_reason = "Invalid stream table entry"]]
  ELSE IF ~ste.s1_enabled /\ ~ste.s2_enabled
  THEN [m |-> RaiseFault(m, stream_id, asid, vmid, va,
                         "No translation stages enabled"),
        tlb |-> t,
        result |-> [DefaultTranslationResult EXCEPT
                      !.fault_reason = "No translation stages enabled"]]
  ELSE translate_fill(
         translate_stages(m, mem, va, ste,
                          get_context_descriptor(cds, stream_id, asid)),
         t, ste, va, stream_id, asid, vmid)

\* translate that probes the TLB before it tests enabled_
translate_disabled_AfterProbe(m, t, va, stream_id, asid, vmid) ==
  [m |-> m, tlb |-> lookup(t, va, stream_id, asid, vmid).tlb,
   result |-> [DefaultTranslationResult EXCEPT
                 !.fault_reason = "SMMU is disabled"]]

\* the early return taken while the SMMU is disabled
translate_disabled(m, t, va, stream_id, asid, vmid) ==
  [m |-> m, tlb |-> t,
   result |-> [DefaultTranslationResult EXCEPT
                 !.fault_reason = "SMMU is disabled"]]

translate(m, t, is_enabled, table, cds, mem, va, stream_id, asid, vmid) ==
  LET m0 == [m EXCEPT !.stats.total_translations = @ + 1]
      lk == lookup(t, va, stream_id, asid, vmid)
  IN
  IF ~is_enabled
  THEN translate_disabled(m0, t, va, stream_id, asid, vmid)
  ELSE IF lk.found
  THEN [m |-> [m0 EXCEPT !.stats.tlb_hits = @ + 1],
        tlb |-> lk.tlb,
        result |-> [success |-> TRUE,
                    physical_addr |-> lk.entry.pa,
                    memory_type |-> lk.entry.memory_type,
                    permission |-> lk.entry.permission,
                    cacheable |-> lk.entry.cacheable,
                    shareable |-> lk.entry.shareable,
                    fault_reason |-> ""]]
  ELSE translate_miss([m0 EXCEPT !.stats.tlb_misses = @ + 1], lk.tlb,
                      table, cds, mem, va, stream_id, asid, vmid)

(***************************************************************************)
(* SMMU: command channel                                                   *)
(***************************************************************************)
\* Command(): type CMD_SYNC, payload zeroed
DefaultCommand ==
  [type |-> "CMD_SYNC", stream_id |-> 0, asid |-> 0, va |-> 0, vmid |-> 0]

\* submit_command with the bound off by one
submit_command_OffByOne(queue, cmd) ==
  IF Len(queue) <= CommandQueueSize THEN Append(queue, cmd) ELSE queue

submit_command(queue, cmd) ==
  IF Len(queue) < CommandQueueSize THEN Append(queue, cmd) ELSE queue

\* process_command whose CMD_CFGI_CD only drops the entries of the named
\* stream
process_command_CdByStream(t, cmd) ==
  CASE cmd.type = "CMD_SYNC" -> t
    [] cmd.type = "CMD_CFGI_STE" -> invalidate_by_stream(t, cmd.stream_id)
    [] cmd.type = "CMD_CFGI_CD" -> invalidate_by_stream(t, cmd.stream_id)
    [] cmd.type = "CMD_CFGI_ALL" -> invalidate_all(t)
    [] cmd.type = "CMD_TLBI_NH_ALL" -> invalidate_all(t)
    [] cmd.type = "CMD_TLBI_NH_ASID" -> invalidate_by_asid(t, cmd.asid)
    [] cmd.type = "CMD_TLBI_NH_VA" -> invalidate_by_va(t, cmd.va, cmd.asid)
    [] cmd.type = "CMD_TLBI_S12_VMALL" -> invalidate_by_vmid(t, cmd.vmid)
    [] OTHER -> t

\* the TLB after process_command(cmd)
process_command(t, cmd) ==
  CASE cmd.type = "CMD_SYNC" -> t
    [] cmd.type = "CMD_CFGI_STE" -> invalidate_by_stream(t, cmd.stream_id)
    [] cmd.type = "CMD_CFGI_CD" -> invalidate_by_asid(t, cmd.asid)
    [] cmd.type = "CMD_CFGI_ALL" -> invalidate_all(t)
    [] cmd.type = "CMD_TLBI_NH_ALL" -> invalidate_all(t)
    [] cmd.type = "CMD_TLBI_NH_ASID" -> invalidate_by_asid(t, cmd.asid)
    [] cmd.type = "CMD_TLBI_NH_VA" -> invalidate_by_va(t, cmd.va, cmd.asid)
    [] cmd.type = "CMD_TLBI_S12_VMALL" -> invalidate_by_vmid(t, cmd.vmid)
    [] OTHER -> t

\* process_command that returns early, uncounted, on commands without effect
CountProcessed_SkipNoop(processed, cmd) ==
  IF cmd.type \in {"CMD_SYNC", "CMD_PREFETCH_CONFIG", "CMD_PREFETCH_ADDR"}
  THEN processed ELSE processed + 1

\* stats_.commands_processed++ at the end of process_command
CountProcessed(processed, cmd) == processed + 1

\* a loop that takes the newest command instead of the oldest
NextCommand_Newest(queue) == queue[Len(queue)]

\* the command the loop of process_commands takes next
NextCommand(queue) == Head(queue)

\* the queue after that command was popped
PopCommand(queue) == Tail(queue)

\* process_commands: [tlb, queue, processed, applied]; applied lists the
\* commands in the order in which process_command ran on them
RECURSIVE process_commands(_, _, _, _)
process_commands(t, queue, processed, applied) ==
  IF queue = << >>
  THEN [tlb |-> t, queue |-> queue, processed |-> processed,
        applied |-> applied]
  ELSE LET cmd == NextCommand(queue)
       IN  process_commands(process_command(t, cmd), PopCommand(queue),
                            CountProcessed(processed, cmd),
                            Append(applied, cmd))

(***************************************************************************)
(* Inputs                                                                  *)
(***************************************************************************)
\* setup_simple_page_table: L0..L3 tables at 0x1000..0x4000, sixteen L3 page
\* descriptors mapping VA i*0x1000 to PA 0x100000 + i*0x1000
TTB == 4096

TestMemory ==
  [a \in {4096, 8192, 12288} \cup {16384 + 8 * i : i \in 0..15} |->
     IF a = 4096 THEN 8192 + 3
     ELSE IF a = 8192 THEN 12288 + 3
     ELSE IF a = 12288 THEN 16384 + 3
     ELSE (1048576 + ((a - 16384) \div 8) * 4096) + 1043]

\* 0x0000, 0x1000, 0x1234 are mapped; 0x100000 is not
VAs == {0, 4096, 4660, 1048576}
StreamIDs == {0, 1}
\* streams that get configured; stream 1 is never configured
ConfiguredStreams == {0}
ASIDs == {1, 2}
VMIDs == {0}

STE_S1 ==
  [DefaultStreamTableEntry EXCEPT !.valid = TRUE, !.s1_enabled = TRUE]

STE_NONE == [DefaultStreamTableEntry EXCEPT !.valid = TRUE]

STEs == {STE_S1, STE_NONE}

CD_OK(asid) ==
  [valid |-> TRUE, translation_table_base |-> TTB, asid |-> asid,
   translation_granule |-> 12, ips |-> 48]

(***************************************************************************)
(* State machine                                                           *)
(***************************************************************************)
TLBState ==
  [entries |-> entries, lru_list |-> lru_list,
   timestamp_counter |-> tlb_timestamp_counter,
   hit_count |-> hit_count, miss_count |-> miss_count]

SetTLB(t) ==
  /\ entries' = t.entries
  /\ lru_list' = t.lru_list
  /\ tlb_timestamp_counter' = t.timestamp_counter
  /\ hit_count' = t.hit_count
  /\ miss_count' = t.miss_count

MState ==
  [stats |-> stats, event_queue |-> event_queue,
   timestamp_counter |-> timestamp_counter]

Call(op, args, result) == [op |-> op, args |-> args, result |-> result]

\* SMMU::SMMU and set_memory_model, with the test page tables in memory
Init ==
  /\ enabled = FALSE
  /\ stream_table = [k \in {} |-> DefaultStreamTableEntry]
  /\ context_descriptors = [k \in {} |-> DefaultContextDescriptor]
  /\ entries = [k \in {} |-> 0]
  /\ lru_list = << >>
  /\ tlb_timestamp_counter = 0
  /\ hit_count = 0
  /\ miss_count = 0
  /\ command_queue = << >>
  /\ event_queue = << >>
  /\ stats = ZeroStatistics
  /\ timestamp_counter = 0
  /\ memory = TestMemory
  /\ ret = Call("SMMU", << >>, << >>)

Enable ==
  /\ enabled' = TRUE
  /\ ret' = Call("enable", << >>, << >>)
  /\ UNCHANGED <<stream_table, context_descriptors, tlbVars, command_queue,
                 event_queue, stats, timestamp_counter, memory>>

Disable ==
  /\ enabled' = FALSE
  /\ ret' = Call("disable", << >>, << >>)
  /\ UNCHANGED <<stream_table, context_descriptors, tlbVars, command_queue,
                 event_queue, stats, timestamp_counter, memory>>

ConfigureStreamTableEntryOver(Sset, STEset) ==
  \E stream_id \in Sset, ste \in STEset :
    /\ stream_table' = [k \in (DOMAIN stream_table) \cup {stream_id} |->
                          IF k = stream_id THEN ste ELSE stream_table[k]]
    /\ ret' = Call("configure_stream_table_entry",
                   [stream_id |-> stream_id, ste |-> ste], << >>)
    /\ UNCHANGED <<enabled, context_descriptors, tlbVars, command_queue,
                   event_queue, stats, timestamp_counter, memory>>

ConfigureContextDescriptorOver(Sset, Aset) ==
  \E stream_id \in Sset, asid \in Aset :
    LET key == make_cd_key(stream_id, asid)
    IN
    /\ context_descriptors' =
         [k \in (DOMAIN context_descriptors) \cup {key} |->
            IF k = key THEN CD_OK(asid) ELSE context_descriptors[k]]
    /\ ret' = Call("configure_context_descriptor",
                   [stream_id |-> stream_id, asid |-> asid], << >>)
    /\ UNCHANGED <<enabled, stream_table, tlbVars, command_queue,
                   event_queue, stats, timestamp_counter, memory>>

TranslateOver(VAset, Sset, Aset, Vset) ==
  \E va \in VAset, stream_id \in Sset, asid \in Aset, vmid \in Vset :
    LET r == translate(MState, TLBState, enabled, stream_table,
                       context_descriptors, memory, va, stream_id, asid, vmid)
    IN
    /\ stats.total_translations < MaxTranslations
    /\ stats' = r.m.stats
    /\ event_queue' = r.m.event_queue
    /\ timestamp_counter' = r.m.timestamp_counter
    /\ SetTLB(r.tlb)
    /\ ret' = Call("translate",
                   [va |-> va, stream_id |-> stream_id, asid |-> asid,
                    vmid |-> vmid], r.result)
    /\ UNCHANGED <<cfgVars, command_queue, memory>>

InvalidateTlbByAsidOver(Aset) ==
  \E asid \in Aset :
    /\ SetTLB(invalidate_by_asid(TLBState, asid))
    /\ ret' = Call("invalidate_tlb_by_asid", [asid |-> asid], << >>)
    /\ UNCHANGED <<cfgVars, command_queue, event_queue, stats,
                   timestamp_counter, memory>>

\* submit_command that runs the command at once instead of queueing it
SubmitCommandOver_Eager(Cset) ==
  \E cmd \in Cset :
    /\ stats.commands_processed < MaxCommands
    /\ SetTLB(process_command(TLBState, cmd))
    /\ stats' = [stats EXCEPT !.commands_processed = @ + 1]
    /\ ret' = Call("submit_command", cmd, << >>)
    /\ UNCHANGED <<cfgVars, command_queue, event_queue, timestamp_counter,
                   memory>>

SubmitCommandOver(Cset) ==
  \E cmd \in Cset :
    /\ command_queue' = submit_command(command_queue, cmd)
    /\ ret' = Call("submit_command", cmd, << >>)
    /\ UNCHANGED <<cfgVars, tlbVars, event_queue, stats, timestamp_counter,
                   memory>>

ProcessCommands ==
  LET r == process_commands(TLBState, command_queue, 0, << >>)
  IN
  /\ stats.commands_processed + Len(command_queue) <= MaxCommands
  /\ SetTLB(r.tlb)
  /\ command_queue' = r.queue
  /\ stats' = [stats EXCEPT !.commands_processed = @ + r.processed]
  /\ ret' = Call("process_commands", << >>, r.applied)
  /\ UNCHANGED <<cfgVars, event_queue, timestamp_counter, memory>>

(***************************************************************************)
(* Spec: configuration, translation and direct invalidation by ASID, from  *)
(* the freshly constructed SMMU                                            *)
(***************************************************************************)
ConfigureStreamTableEntry ==
  ConfigureStreamTableEntryOver(ConfiguredStreams, STEs)

ConfigureContextDescriptor ==
  ConfigureContextDescriptorOver(ConfiguredStreams, ASIDs)

\* every request on the configured stream, one on the unconfigured stream
Translate ==
  \/ TranslateOver(VAs, ConfiguredStreams, ASIDs, VMIDs)
  \/ TranslateOver({4096}, StreamIDs \ ConfiguredStreams, {1}, VMIDs)

InvalidateTlbByAsid == InvalidateTlbByAsidOver(ASIDs)

Next ==
  \/ Enable
  \/ Disable
  \/ ConfigureStreamTableEntry
  \/ ConfigureContextDescriptor
  \/ Translate
  \/ InvalidateTlbByAsid

Spec == Init /\ [][Next]_vars

(***************************************************************************)
(* Vocabulary of the properties                                            *)
(***************************************************************************)
\* the step is a call of translate / the call that led to this state was one
TranslateStep == ret'.op = "translate"

\* what the test page tables map: VA page i to PA 0x100000 + i*0x1000, i < 16
MappedByTables(va) == va \div 4096 < 16

MappedPA(va) == 1048576 + (va \div 4096) * 4096 + (va % 4096)

S1OnlyStream(stream_id) ==
  /\ stream_id \in DOMAIN stream_table
  /\ stream_table[stream_id].valid
  /\ stream_table[stream_id].s1_enabled
  /\ ~stream_table[stream_id].s2_enabled

ValidContext(stream_id, asid) ==
  /\ make_cd_key(stream_id, asid) \in DOMAIN context_descriptors
  /\ context_descriptors[make_cd_key(stream_id, asid)].valid
  /\ context_descriptors[make_cd_key(stream_id, asid)].translation_granule = 12
  /\ context_descriptors[make_cd_key(stream_id, asid)].translation_table_base
       = TTB

\* the step emitted exactly one Translation event, or none on a full queue
OneTranslationEvent ==
  IF Len(event_queue) < EventQueueSize
  THEN /\ Len(event_queue') = Len(event_queue) + 1
       /\ SubSeq(event_queue', 1, Len(event_queue)) = event_queue
       /\ event_queue'[Len(event_queue')].fault_type = "TRANSLATION_FAULT"
       /\ stats'.events_generated = stats.events_generated + 1
  ELSE /\ event_queue' = event_queue
       /\ stats'.events_generated = stats.events_generated

SameAnswer(r1, r2) ==
  /\ r1.physical_addr = r2.physical_addr
  /\ r1.memory_type = r2.memory_type
  /\ r1.permission = r2.permission
  /\ r1.cacheable = r2.cacheable
  /\ r1.shareable = r2.shareable

\* some cached entry would be returned for the arguments of the last call
WouldHit(args) ==
  lookup(TLBState, args.va, args.stream_id, args.asid, args.vmid).found

(***************************************************************************)
(* C1 -- round trip: on an enabled SMMU, with a valid stage-1-only stream  *)
(* and a valid granule-12 context whose tables map the page of v to p,     *)
(* translate(v) succeeds with physical_addr = p + (v mod 4096), whatever   *)
(* was translated before.                                                  *)
(***************************************************************************)
C1_RoundTrip ==
  ( /\ ret.op = "translate"
    /\ enabled
    /\ S1OnlyStream(ret.args.stream_id)
    /\ ValidContext(ret.args.stream_id, ret.args.asid)
    /\ MappedByTables(ret.args.va) )
  => ( /\ ret.result.success
       /\ ret.result.physical_addr = MappedPA(ret.args.va) )

(***************************************************************************)
(* C2 -- a successful translate repeated at once with the same arguments   *)
(* is a cache hit (tlb_hits + 1, tlb_misses and page_table_walks           *)
(* unchanged) and returns the same address and attributes.                 *)
(***************************************************************************)
C2_SecondCallHits ==
  [][ ( /\ ret.op = "translate"
        /\ ret.result.success
        /\ TranslateStep
        /\ ret'.args = ret.args )
      => ( /\ stats'.tlb_hits = stats.tlb_hits + 1
           /\ stats'.tlb_misses = stats.tlb_misses
           /\ stats'.page_table_walks = stats.page_table_walks
           /\ ret'.result.success
           /\ SameAnswer(ret'.result, ret.result) ) ]_vars

\* a walk filled the cache with the entry of exactly this request, and the
\* second translate, the last call, was the hit
C2_Witness ==
  /\ ret.op = "translate"
  /\ ret.result.success
  /\ stats.total_translations = 2
  /\ stats.tlb_misses = 1
  /\ stats.page_table_walks = 1
  /\ stats.tlb_hits = 1
  /\ \E k \in DOMAIN entries :
       /\ entries[k].va = ret.args.va
       /\ entries[k].stream_id = ret.args.stream_id
       /\ entries[k].asid = ret.args.asid
       /\ entries[k].vmid = ret.args.vmid
       /\ entries[k].pa = ret.result.physical_addr

(***************************************************************************)
(* C4 -- unmapped address: on an enabled SMMU with a valid stage-1 stream  *)
(* and context, translate of a VA whose walk ends at an invalid descriptor *)
(* fails, counts a translation fault and emits one Translation event,      *)
(* whatever mapped VAs were translated before.                             *)
(***************************************************************************)
C4_UnmappedFaults ==
  [][ ( /\ TranslateStep
        /\ enabled
        /\ S1OnlyStream(ret'.args.stream_id)
        /\ ValidContext(ret'.args.stream_id, ret'.args.asid)
        /\ ~MappedByTables(ret'.args.va) )
      => ( /\ ~ret'.result.success
           /\ stats'.translation_faults = stats.translation_faults + 1
           /\ OneTranslationEvent ) ]_vars

(***************************************************************************)
(* C5 -- translate on an enabled SMMU with a stream id that was never      *)
(* configured fails with "Invalid stream table entry", counts one miss and *)
(* one fault, emits one Translation event (if the queue has room), walks   *)
(* nothing and caches nothing.                                             *)
(***************************************************************************)
C5_UnconfiguredStream ==
  [][ ( /\ TranslateStep
        /\ enabled
        /\ ret'.args.stream_id \notin DOMAIN stream_table )
      => ( /\ ~ret'.result.success
           /\ ret'.result.fault_reason = "Invalid stream table entry"
           /\ stats'.tlb_misses = stats.tlb_misses + 1
           /\ stats'.tlb_hits = stats.tlb_hits
           /\ stats'.translation_faults = stats.translation_faults + 1
           /\ stats'.page_table_walks = stats.page_table_walks
           /\ OneTranslationEvent
           /\ entries' = entries
           /\ lru_list' = lru_list ) ]_vars

\* the fault was raised for a stream absent from the stream table while
\* another stream has a cached translation
C5_Witness ==
  /\ ret.op = "translate"
  /\ enabled
  /\ ret.args.stream_id \notin DOMAIN stream_table
  /\ ret.result.fault_reason = "Invalid stream table entry"
  /\ entries # [k \in {} |-> 0]
  /\ event_queue # << >>

(***************************************************************************)
(* C6 -- whenever the stored StreamConfig of a stream is valid with no     *)
(* stage enabled, every translate on that stream (SMMU enabled) fails with *)
(* "No translation stages enabled", emits a Translation event and counts a *)
(* fault, whatever configurations and translations preceded.               *)
(***************************************************************************)
NoStageStream(stream_id) ==
  /\ stream_id \in DOMAIN stream_table
  /\ stream_table[stream_id].valid
  /\ ~stream_table[stream_id].s1_enabled
  /\ ~stream_table[stream_id].s2_enabled

NoStageFault ==
  /\ ~ret'.result.success
  /\ ret'.result.fault_reason = "No translation stages enabled"
  /\ stats'.translation_faults = stats.translation_faults + 1
  /\ OneTranslationEvent

C6_NoStageAlwaysFaults ==
  [][ ( /\ TranslateStep
        /\ enabled
        /\ NoStageStream(ret'.args.stream_id) )
      => NoStageFault ]_vars

\* C6 as amended: the fault is raised by every such translate that is not
\* served from the cache
C6_NoStageFaultsOnMiss ==
  [][ ( /\ TranslateStep
        /\ enabled
        /\ NoStageStream(ret'.args.stream_id)
        /\ ~WouldHit(ret'.args) )
      => NoStageFault ]_vars

\* the no-stage fault was raised on a stream that had translated before
C6_Witness ==
  /\ ret.op = "translate"
  /\ enabled
  /\ NoStageStream(ret.args.stream_id)
  /\ ret.result.fault_reason = "No translation stages enabled"
  /\ \E k \in DOMAIN entries : k.stream_id = ret.args.stream_id

(***************************************************************************)
(* C7 -- the SMMU is disabled after construction and after disable(); a    *)
(* translate on a disabled SMMU fails with "SMMU is disabled" and changes  *)
(* nothing but total_translations (+1): no probe, no walk, no event, no    *)
(* fault count, cache contents and recency order unchanged.                *)
(***************************************************************************)
C7_DisabledTranslate ==
  /\ ~enabled
  /\ [][ /\ (ret'.op = "disable" => ~enabled')
         /\ ( (TranslateStep /\ ~enabled)
              => ( /\ ~ret'.result.success
                   /\ ret'.result.fault_reason = "SMMU is disabled"
                   /\ stats' = [stats EXCEPT !.total_translations = @ + 1]
                   /\ UNCHANGED <<tlbVars, cfgVars, command_queue,
                                  event_queue, timestamp_counter,
                                  memory>> ) ) ]_vars

\* the refused request has a cached translation that a probe would have hit
C7_Witness ==
  /\ ret.op = "translate"
  /\ ~enabled
  /\ ret.result.fault_reason = "SMMU is disabled"
  /\ WouldHit(ret.args)

(***************************************************************************)
(* SpecInv: translation, invalidation by ASID (direct and by command),     *)
(* enable/disable and stream reconfiguration, from the SMMU as the tests   *)
(* set it up: stream 0 stage-1 only, contexts (0,1) and (0,2), enabled.    *)
(***************************************************************************)
SetupStreamTable == 0 :> STE_S1

SetupContexts ==
  (make_cd_key(0, 1) :> CD_OK(1)) @@ (make_cd_key(0, 2) :> CD_OK(2))

InitInv ==
  /\ enabled = TRUE
  /\ stream_table = SetupStreamTable
  /\ context_descriptors = SetupContexts
  /\ entries = [k \in {} |-> 0]
  /\ lru_list = << >>
  /\ tlb_timestamp_counter = 0
  /\ hit_count = 0
  /\ miss_count = 0
  /\ command_queue = << >>
  /\ event_queue = << >>
  /\ stats = ZeroStatistics
  /\ timestamp_counter = 0
  /\ memory = TestMemory
  /\ ret = Call("enable", << >>, << >>)

TlbiAsid(asid) ==
  [DefaultCommand EXCEPT !.type = "CMD_TLBI_NH_ASID", !.asid = asid]

InvVAs == {4096, 1048576}

InvCommands == {TlbiAsid(1)}

TranslateInv == TranslateOver(InvVAs, ConfiguredStreams, ASIDs, VMIDs)

SubmitCommandInv == SubmitCommandOver(InvCommands)

NextInv ==
  \/ Enable
  \/ Disable
  \/ ConfigureStreamTableEntry
  \/ TranslateInv
  \/ InvalidateTlbByAsid
  \/ SubmitCommandInv
  \/ ProcessCommands

SpecInv == InitInv /\ [][NextInv]_vars

(***************************************************************************)
(* C3 -- after invalidate_tlb_by_asid(A), or a drained CMD_TLBI_NH_ASID(A),*)
(* no translate with asid A is a cache hit until a new walk refills the    *)
(* cache: the next such translate counts a miss and, with a valid          *)
(* single-stage stream and context and a mapped VA, succeeds by one walk.  *)
(***************************************************************************)
\* the last call invalidated asid, directly or by a drained command
JustInvalidated(asid) ==
  \/ ret.op = "invalidate_tlb_by_asid" /\ ret.args.asid = asid
  \/ /\ ret.op = "process_commands"
     /\ \E i \in 1..Len(ret.result) :
          /\ ret.result[i].type = "CMD_TLBI_NH_ASID"
          /\ ret.result[i].asid = asid

NoneCached(asid) ==
  \A k \in DOMAIN entries : k.asid # asid /\ entries[k].asid # asid

\* a translate with this asid that finds nothing cached misses and walks
MissAndWalk(asid) ==
  /\ stats'.tlb_hits = stats.tlb_hits
  /\ stats'.tlb_misses = stats.tlb_misses + 1
  /\ ( ( /\ S1OnlyStream(ret'.args.stream_id)
         /\ ValidContext(ret'.args.stream_id, asid)
         /\ MappedByTables(ret'.args.va) )
       => ( /\ ret'.result.success
            /\ ret'.result.physical_addr = MappedPA(ret'.args.va)
            /\ stats'.page_table_walks = stats.page_table_walks + 1 ) )

\* entries tagged asid enter the cache only by a walking translate of asid
RefilledByWalk(asid) ==
  (NoneCached(asid) /\ ~NoneCached(asid)')
  => ( /\ TranslateStep
       /\ ret'.args.asid = asid
       /\ stats'.page_table_walks > stats.page_table_walks )

C3_MissAfterInvalidate ==
  /\ [](\A asid \in ASIDs : JustInvalidated(asid) => NoneCached(asid))
  /\ [][ \A asid \in ASIDs :
           /\ RefilledByWalk(asid)
           /\ ( (NoneCached(asid) /\ TranslateStep /\ ret'.args.asid = asid)
                => MissAndWalk(asid) ) ]_vars

\* C3 as amended: the miss is counted by the next such translate on an
\* enabled SMMU
C3_MissAfterInvalidateEnabled ==
  /\ [](\A asid \in ASIDs : JustInvalidated(asid) => NoneCached(asid))
  /\ [][ \A asid \in ASIDs :
           /\ RefilledByWalk(asid)
           /\ ( ( /\ NoneCached(asid)
                  /\ TranslateStep
                  /\ ret'.args.asid = asid
                  /\ enabled )
                => MissAndWalk(asid) ) ]_vars

\* two translates, both walked, none hit, and only the entry of the second
\* is cached: the entry of the first was invalidated in between
C3_Witness ==
  /\ ret.op = "translate"
  /\ ret.result.success
  /\ stats.total_translations = 2
  /\ stats.tlb_hits = 0
  /\ stats.tlb_misses = 2
  /\ stats.page_table_walks = 2
  /\ tlb_timestamp_counter = 2
  /\ Cardinality(DOMAIN entries) = 1
  /\ \A k \in DOMAIN entries :
       k.asid = ret.args.asid /\ entries[k].timestamp = 1

(***************************************************************************)
(* SpecCmd: the command channel, from the SMMU set up as above after       *)
(* translate(0x1000, 0, 1, 0) and translate(0x1000, 0, 2, 0) have filled   *)
(* the cache.                                                              *)
(***************************************************************************)
Filled1 ==
  translate([stats |-> ZeroStatistics, event_queue |-> << >>,
             timestamp_counter |-> 0],
            [entries |-> [k \in {} |-> 0], lru_list |-> << >>,
             timestamp_counter |-> 0, hit_count |-> 0, miss_count |-> 0],
            TRUE, SetupStreamTable, SetupContexts, TestMemory, 4096, 0, 1, 0)

Filled2 ==
  translate(Filled1.m, Filled1.tlb, TRUE, SetupStreamTable, SetupContexts,
            TestMemory, 4096, 0, 2, 0)

InitCmd ==
  /\ enabled = TRUE
  /\ stream_table = SetupStreamTable
  /\ context_descriptors = SetupContexts
  /\ entries = Filled2.tlb.entries
  /\ lru_list = Filled2.tlb.lru_list
  /\ tlb_timestamp_counter = Filled2.tlb.timestamp_counter
  /\ hit_count = Filled2.tlb.hit_count
  /\ miss_count = Filled2.tlb.miss_count
  /\ command_queue = << >>
  /\ event_queue = Filled2.m.event_queue
  /\ stats = Filled2.m.stats
  /\ timestamp_counter = Filled2.m.timestamp_counter
  /\ memory = TestMemory
  /\ ret = Call("translate",
                [va |-> 4096, stream_id |-> 0, asid |-> 2, vmid |-> 0],
                Filled2.result)

\* one command of every CommandType
AllCommands ==
  { DefaultCommand,
    [DefaultCommand EXCEPT !.type = "CMD_PREFETCH_CONFIG"],
    [DefaultCommand EXCEPT !.type = "CMD_PREFETCH_ADDR"],
    [DefaultCommand EXCEPT !.type = "CMD_CFGI_STE", !.stream_id = 0],
    [DefaultCommand EXCEPT !.type = "CMD_CFGI_CD", !.stream_id = 1,
                           !.asid = 1],
    [DefaultCommand EXCEPT !.type = "CMD_CFGI_ALL"],
    [DefaultCommand EXCEPT !.type = "CMD_TLBI_NH_ALL"],
    TlbiAsid(2),
    [DefaultCommand EXCEPT !.type = "CMD_TLBI_NH_VA", !.va = 4096,
                           !.asid = 1],
    [DefaultCommand EXCEPT !.type = "CMD_TLBI_S12_VMALL", !.vmid = 0] }

SubmitCommand == SubmitCommandOver(AllCommands)

NextCmd ==
  \/ SubmitCommand
  \/ ProcessCommands

SpecCmd == InitCmd /\ [][NextCmd]_vars

NoEffectTypes == {"CMD_SYNC", "CMD_PREFETCH_CONFIG", "CMD_PREFETCH_ADDR"}

(***************************************************************************)
(* C8 -- N commands submitted without overflow and then drained raise      *)
(* commands_processed by exactly N and leave the queue empty, whatever     *)
(* their types; CMD_SYNC, CMD_PREFETCH_CONFIG and CMD_PREFETCH_ADDR have   *)
(* no other effect; a second drain right after changes nothing.            *)
(***************************************************************************)
C8_DrainCountsAll ==
  [][ /\ ( (ret'.op = "submit_command"
            /\ Len(command_queue) < CommandQueueSize)
           => ( /\ Len(command_queue') = Len(command_queue) + 1
                /\ stats' = stats ) )
      /\ ( ret'.op = "process_commands"
           => ( /\ stats' = [stats EXCEPT !.commands_processed =
                                            @ + Len(command_queue)]
                /\ command_queue' = << >>
                /\ UNCHANGED <<cfgVars, event_queue, timestamp_counter,
                               memory>>
                /\ ( (\A i \in 1..Len(command_queue) :
                        command_queue[i].type \in NoEffectTypes)
                     => UNCHANGED tlbVars ) ) )
      /\ ( (ret.op = "process_commands" /\ ret'.op = "process_commands")
           => UNCHANGED <<cfgVars, tlbVars, command_queue, event_queue,
                          stats, timestamp_counter, memory>> ) ]_vars

\* a full queue of commands without effect was drained and counted, with
\* translations still cached
C8_Witness ==
  /\ ret.op = "process_commands"
  /\ Len(ret.result) = CommandQueueSize
  /\ \A i \in 1..Len(ret.result) : ret.result[i].type \in NoEffectTypes
  /\ stats.commands_processed >= CommandQueueSize
  /\ command_queue = << >>
  /\ Cardinality(DOMAIN entries) = 2

(***************************************************************************)
(* C9 -- process_commands applies the queued commands in the order in      *)
(* which submit_command accepted them: oldest first, none skipped, none    *)
(* applied twice.                                                          *)
(***************************************************************************)
\* the TLB after the commands of queue were applied one by one, first first
RECURSIVE AppliedInOrder(_, _)
AppliedInOrder(t, queue) ==
  IF queue = << >> THEN t
  ELSE AppliedInOrder(process_command(t, Head(queue)), Tail(queue))

C9_FifoOrder ==
  [][ /\ ( (ret'.op = "submit_command"
            /\ Len(command_queue) < CommandQueueSize)
           => command_queue' = Append(command_queue, ret'.args) )
      /\ ( ret'.op = "process_commands"
           => ( /\ ret'.result = command_queue
                /\ entries' = AppliedInOrder(TLBState, command_queue).entries
                /\ lru_list' =
                     AppliedInOrder(TLBState, command_queue).lru_list ) )
    ]_vars

\* two different commands were drained, the second of which emptied a cache
\* that the first had left alone
C9_Witness ==
  /\ ret.op = "process_commands"
  /\ Len(ret.result) = 2
  /\ ret.result[1].type = "CMD_SYNC"
  /\ ret.result[2].type = "CMD_TLBI_NH_ALL"
  /\ DOMAIN entries = {}
  /\ stats.commands_processed = 2

(***************************************************************************)
(* C10 -- the command queue never holds more than command_queue_size       *)
(* commands; submit_command on a full queue drops the command and changes  *)
(* nothing; so a drain after M submissions counts min(M, size) commands.   *)
(***************************************************************************)
C10_BoundedQueue ==
  /\ [](Len(command_queue) <= CommandQueueSize)
  /\ [][ /\ ( (ret'.op = "submit_command"
               /\ Len(command_queue) = CommandQueueSize)
              => UNCHANGED <<cfgVars, tlbVars, command_queue, event_queue,
                             stats, timestamp_counter, memory>> )
         /\ ( ret'.op = "process_commands"
              => stats'.commands_processed - stats.commands_processed
                   <= CommandQueueSize ) ]_vars

\* the last submit_command met a full queue: its command is not queued
C10_Witness ==
  /\ ret.op = "submit_command"
  /\ Len(command_queue) = CommandQueueSize
  /\ \A i \in 1..Len(command_queue) : command_queue[i] # ret.args
  /\ Cardinality(DOMAIN entries) = 2

(***************************************************************************)
(* SpecEvt: the fault paths and the event queue, from an enabled SMMU with *)
(* one stream of every kind: stream 0 stage 1 only, stream 1 both stages,  *)
(* stream 2 valid with no stage, stream 3 never configured, stream 4 stage *)
(* 2 only; contexts (0,1) and (1,1).                                       *)
(***************************************************************************)
STE_S1S2 ==
  [DefaultStreamTableEntry EXCEPT
     !.valid = TRUE, !.s1_enabled = TRUE, !.s2_enabled = TRUE,
     !.s2_translation_table_base = TTB, !.s2_granule = 12]

STE_S2 ==
  [DefaultStreamTableEntry EXCEPT
     !.valid = TRUE, !.s2_enabled = TRUE,
     !.s2_translation_table_base = TTB, !.s2_granule = 12]

EvtStreamTable ==
  (0 :> STE_S1) @@ (1 :> STE_S1S2) @@ (2 :> STE_NONE) @@ (4 :> STE_S2)

EvtContexts ==
  (make_cd_key(0, 1) :> CD_OK(1)) @@ (make_cd_key(1, 1) :> CD_OK(1))

Request(va, stream_id, asid, vmid) ==
  [va |-> va, stream_id |-> stream_id, asid |-> asid, vmid |-> vmid]

\* one request for every path of translate
EvtRequests ==
  { Request(4096, 0, 1, 0),       \* stage-1 walk succeeds
    Request(1048576, 0, 1, 0),    \* stage-1 walk faults
    Request(4096, 0, 2, 0),       \* no context (0,2)
    Request(4096, 1, 1, 0),       \* stage 1 succeeds, stage-2 walk faults
    Request(4096, 2, 1, 0),       \* no stage enabled
    Request(4096, 3, 1, 0),       \* stream not configured
    Request(4096, 4, 1, 0) }      \* stage-2 walk succeeds

InitEvt ==
  /\ enabled = TRUE
  /\ stream_table = EvtStreamTable
  /\ context_descriptors = EvtContexts
  /\ entries = [k \in {} |-> 0]
  /\ lru_list = << >>
  /\ tlb_timestamp_counter = 0
  /\ hit_count = 0
  /\ miss_count = 0
  /\ command_queue = << >>
  /\ event_queue = << >>
  /\ stats = ZeroStatistics
  /\ timestamp_counter = 0
  /\ memory = TestMemory
  /\ ret = Call("enable", << >>, << >>)

\* translate of one of the requests; the probes of the cache are bounded too,
\* since reset_statistics restarts total_translations
TranslateReq(Rset) ==
  \E q \in Rset :
    LET r == translate(MState, TLBState, enabled, stream_table,
                       context_descriptors, memory, q.va, q.stream_id,
                       q.asid, q.vmid)
    IN
    /\ stats.total_translations < MaxTranslations
    /\ hit_count + miss_count < MaxTranslations
    /\ stats' = r.m.stats
    /\ event_queue' = r.m.event_queue
    /\ timestamp_counter' = r.m.timestamp_counter
    /\ SetTLB(r.tlb)
    /\ ret' = Call("translate", q, r.result)
    /\ UNCHANGED <<cfgVars, command_queue, memory>>

TranslateEvt == TranslateReq(EvtRequests)

\* pop_event that returns the front event without removing it
pop_event_Peek(queue) ==
  IF queue # << >>
  THEN [event |-> Head(queue), queue |-> queue]
  ELSE [event |-> DefaultEvent, queue |-> queue]

\* SMMU::pop_event: [event, queue]
pop_event(queue) ==
  IF queue # << >>
  THEN [event |-> Head(queue), queue |-> Tail(queue)]
  ELSE [event |-> DefaultEvent, queue |-> queue]

PopEvent ==
  /\ event_queue' = pop_event(event_queue).queue
  /\ ret' = Call("pop_event", << >>, pop_event(event_queue).event)
  /\ UNCHANGED <<cfgVars, tlbVars, command_queue, stats, timestamp_counter,
                 memory>>

\* reset_statistics that empties the cache as well
ResetStatistics_FlushCache ==
  /\ stats' = ZeroStatistics
  /\ SetTLB(invalidate_all(TLBState))
  /\ ret' = Call("reset_statistics", << >>, << >>)
  /\ UNCHANGED <<cfgVars, command_queue, event_queue, timestamp_counter,
                 memory>>

\* reset_statistics that forgets one counter
ResetStatistics_KeepEvents ==
  /\ stats' = [ZeroStatistics EXCEPT
                 !.events_generated = stats.events_generated]
  /\ ret' = Call("reset_statistics", << >>, << >>)
  /\ UNCHANGED <<cfgVars, tlbVars, command_queue, event_queue,
                 timestamp_counter, memory>>

ResetStatistics ==
  /\ stats' = ZeroStatistics
  /\ ret' = Call("reset_statistics", << >>, << >>)
  /\ UNCHANGED <<cfgVars, tlbVars, command_queue, event_queue,
                 timestamp_counter, memory>>

NextEvt ==
  \/ TranslateEvt
  \/ PopEvent
  \/ ResetStatistics

SpecEvt == InitEvt /\ [][NextEvt]_vars

\* the step is a translate on the enabled SMMU that returned a failure
FailedTranslateStep ==
  TranslateStep /\ enabled /\ ~ret'.result.success

(***************************************************************************)
(* C11 -- the event queue never holds more than event_queue_size events: a *)
(* fault raised while the queue is full enqueues nothing, leaves           *)
(* events_generated and the queued events unchanged, and the failing       *)
(* translate still returns a failure and still counts translation_faults.  *)
(***************************************************************************)
C11_EventQueueBounded ==
  /\ [](Len(event_queue) <= EventQueueSize)
  /\ [][ (FailedTranslateStep /\ Len(event_queue) = EventQueueSize)
         => ( /\ event_queue' = event_queue
              /\ stats'.events_generated = stats.events_generated
              /\ timestamp_counter' = timestamp_counter
              /\ stats'.translation_faults = stats.translation_faults + 1 )
       ]_vars

\* a second fault was raised on the full queue: counted, but not enqueued
C11_Witness ==
  /\ ret.op = "translate"
  /\ ~ret.result.success
  /\ Len(event_queue) = EventQueueSize
  /\ stats.translation_faults = EventQueueSize + 1
  /\ stats.events_generated = EventQueueSize

(***************************************************************************)
(* C12 -- every failed translate on an enabled SMMU adds exactly one to    *)
(* translation_faults and emits exactly one event (none only on a full     *)
(* event queue), on every failure path; a successful translate emits no    *)
(* event and leaves translation_faults unchanged.                          *)
(***************************************************************************)
C12_OneFaultOneEvent ==
  [][ (TranslateStep /\ enabled)
      => IF ret'.result.success
         THEN /\ stats'.translation_faults = stats.translation_faults
              /\ stats'.events_generated = stats.events_generated
              /\ event_queue' = event_queue
         ELSE /\ stats'.translation_faults = stats.translation_faults + 1
              /\ OneTranslationEvent
    ]_vars

\* the stage-2 walk of the two-stage stream failed after stage 1 succeeded,
\* following a successful translate
C12_Witness ==
  /\ ret.op = "translate"
  /\ ret.args.stream_id = 1
  /\ ~ret.result.success
  /\ stats.total_translations = 2
  /\ stats.page_table_walks = 3
  /\ stats.translation_faults = 1
  /\ stats.events_generated = 1
  /\ Len(event_queue) = 1

(***************************************************************************)
(* C13 -- translation_faults and events_generated track 1:1 since          *)
(* construction or the last reset_statistics.                              *)
(***************************************************************************)
\* C13 as stated: the two counters are equal in every reachable state
C13_FaultsEqualEvents ==
  stats.translation_faults = stats.events_generated

\* C13 as amended: events_generated never exceeds translation_faults;
\* reset_statistics zeroes both; every other operation changes both by the
\* same amount, except a fault raised while the event queue is full, which
\* adds one to translation_faults only
C13_FaultsTrackEvents ==
  /\ [](stats.events_generated <= stats.translation_faults)
  /\ [][ IF ret'.op = "reset_statistics"
         THEN stats'.translation_faults = 0 /\ stats'.events_generated = 0
         ELSE IF Len(event_queue) < EventQueueSize
         THEN stats'.translation_faults - stats.translation_faults
                = stats'.events_generated - stats.events_generated
         ELSE /\ stats'.events_generated = stats.events_generated
              /\ stats'.translation_faults - stats.translation_faults
                   \in {0, 1}
       ]_vars

\* two faults, both with their event: the first event was popped before the
\* second fault
C13_Witness ==
  /\ ret.op = "translate"
  /\ ~ret.result.success
  /\ stats.translation_faults = 2
  /\ stats.events_generated = 2
  /\ timestamp_counter = 2

(***************************************************************************)
(* C14 -- every emitted event describes the request that failed: its kind  *)
(* is Translation and its stream_id, asid, vmid and va are those passed to *)
(* the failing translate.                                                  *)
(***************************************************************************)
C14_EventDescribesRequest ==
  [][ (FailedTranslateStep /\ Len(event_queue') = Len(event_queue) + 1)
      => LET e == event_queue'[Len(event_queue')]
         IN  /\ e.fault_type = "TRANSLATION_FAULT"
             /\ e.stream_id = ret'.args.stream_id
             /\ e.asid = ret'.args.asid
             /\ e.vmid = ret'.args.vmid
             /\ e.va = ret'.args.va
    ]_vars

(***************************************************************************)
(* SpecTlb: the translation cache under direct insert, lookup and          *)
(* invalidate_* calls and under translate, from the SMMU set up as for     *)
(* SpecInv.                                                                *)
(***************************************************************************)
\* TLBEntry() with the identifying fields set
TlbEntry(va, stream_id, asid, vmid, page_size) ==
  [va |-> va, pa |-> 1048576 + va, stream_id |-> stream_id, asid |-> asid,
   vmid |-> vmid, page_size |-> page_size, memory_type |-> "NORMAL_WB",
   permission |-> "NONE", cacheable |-> TRUE, shareable |-> FALSE,
   stage |-> "STAGE1", timestamp |-> 0]

\* entries of both streams, asids and vmids, of 4 KiB, 64 KiB and 2 MiB
TlbEntries ==
  { TlbEntry(4096, 0, 1, 0, SIZE_4KB),
    TlbEntry(8192, 0, 2, 0, SIZE_4KB),
    TlbEntry(0, 1, 1, 1, SIZE_2MB),
    TlbEntry(4096, 1, 2, 1, SIZE_4KB),
    TlbEntry(73728, 0, 1, 0, SIZE_64KB) }

TlbVAs == {0, 4096, 69632}

TlbStreamIDs == {0, 1}

TlbVMIDs == {0, 1}

KeyOf(entry) ==
  TLBKey(get_page_base(entry.va, entry.page_size), entry.stream_id,
         entry.asid, entry.vmid)

TlbInsert ==
  \E entry \in TlbEntries :
    /\ tlb_timestamp_counter < MaxInserts
    /\ SetTLB(insert(TLBState, entry, TlbSize))
    /\ ret' = Call("insert", entry, << >>)
    /\ UNCHANGED <<cfgVars, command_queue, event_queue, stats,
                   timestamp_counter, memory>>

\* lookups that hit an entry of their own page, hit an entry of another
\* page, or miss
TlbLookups ==
  { Request(4096, 0, 1, 0), Request(8192, 0, 2, 0), Request(4096, 1, 1, 1),
    Request(69632, 0, 1, 0), Request(0, 0, 2, 0) }

TlbLookup ==
  \E q \in TlbLookups :
    LET r == lookup(TLBState, q.va, q.stream_id, q.asid, q.vmid)
    IN
    /\ hit_count + miss_count < MaxLookups
    /\ SetTLB(r.tlb)
    /\ ret' = Call("lookup", q, [found |-> r.found])
    /\ UNCHANGED <<cfgVars, command_queue, event_queue, stats,
                   timestamp_counter, memory>>

InvalidateTlbAll ==
  /\ SetTLB(invalidate_all(TLBState))
  /\ ret' = Call("invalidate_tlb_all", << >>, << >>)
  /\ UNCHANGED <<cfgVars, command_queue, event_queue, stats,
                 timestamp_counter, memory>>

InvalidateTlbByVmid ==
  \E vmid \in TlbVMIDs :
    /\ SetTLB(invalidate_by_vmid(TLBState, vmid))
    /\ ret' = Call("invalidate_tlb_by_vmid", [vmid |-> vmid], << >>)
    /\ UNCHANGED <<cfgVars, command_queue, event_queue, stats,
                   timestamp_counter, memory>>

InvalidateTlbByStream ==
  \E stream_id \in TlbStreamIDs :
    /\ SetTLB(invalidate_by_stream(TLBState, stream_id))
    /\ ret' = Call("invalidate_tlb_by_stream", [stream_id |-> stream_id],
                   << >>)
    /\ UNCHANGED <<cfgVars, command_queue, event_queue, stats,
                   timestamp_counter, memory>>

InvalidateTlbByVa ==
  \E va \in TlbVAs, asid \in ASIDs :
    /\ SetTLB(invalidate_by_va(TLBState, va, asid))
    /\ ret' = Call("invalidate_tlb_by_va", [va |-> va, asid |-> asid],
                   << >>)
    /\ UNCHANGED <<cfgVars, command_queue, event_queue, stats,
                   timestamp_counter, memory>>

TlbRequests ==
  { Request(4096, 0, 1, 0), Request(0, 0, 1, 0), Request(4096, 0, 2, 0) }

TranslateTlb ==
  /\ tlb_timestamp_counter < MaxInserts
  /\ hit_count + miss_count < MaxLookups
  /\ TranslateReq(TlbRequests)

NextTlb ==
  \/ TlbInsert
  \/ TlbLookup
  \/ TranslateTlb
  \/ InvalidateTlbAll
  \/ InvalidateTlbByAsid
  \/ InvalidateTlbByVmid
  \/ InvalidateTlbByStream
  \/ InvalidateTlbByVa

SpecTlb == InitInv /\ [][NextTlb]_vars

(***************************************************************************)
(* C15 -- capacity bound: with capacity N >= 1, after any sequence of      *)
(* insert, lookup, invalidate_* and translate the cache holds at most N    *)
(* entries (and the recency list lists exactly the cached keys, once each).*)
(***************************************************************************)
C15_CapacityBound ==
  /\ Cardinality(DOMAIN entries) <= TlbSize
  /\ Len(lru_list) = Cardinality(DOMAIN entries)
  /\ {lru_list[i] : i \in 1..Len(lru_list)} = DOMAIN entries

\* an insert into the full cache: every slot is taken by an entry written
\* after the first one, which is gone
C15_Witness ==
  /\ ret.op = "insert"
  /\ tlb_timestamp_counter = TlbSize + 1
  /\ Cardinality(DOMAIN entries) = TlbSize
  /\ {entries[k].timestamp : k \in DOMAIN entries} = 1..TlbSize
  /\ hit_count + miss_count = 0

(***************************************************************************)
(* C17 -- invalidate_by_asid(x), invalidate_by_vmid(x) and                 *)
(* invalidate_by_stream(x) remove every cached entry whose asid, vmid or   *)
(* stream_id equals x and nothing else: the other entries stay cached      *)
(* unchanged and keep their relative recency order.                        *)
(***************************************************************************)
\* the step removed exactly the entries under the keys gone
RemovedExactly(gone) ==
  /\ DOMAIN entries' = (DOMAIN entries) \ gone
  /\ \A k \in DOMAIN entries' : entries'[k] = entries[k]
  /\ lru_list' = SelectSeq(lru_list, LAMBDA k : k \notin gone)
  /\ UNCHANGED <<tlb_timestamp_counter, hit_count, miss_count>>

C17_SelectiveInvalidate ==
  [][ /\ ret'.op = "invalidate_tlb_by_asid"
         => RemovedExactly({k \in DOMAIN entries :
                              entries[k].asid = ret'.args.asid})
      /\ ret'.op = "invalidate_tlb_by_vmid"
         => RemovedExactly({k \in DOMAIN entries :
                              entries[k].vmid = ret'.args.vmid})
      /\ ret'.op = "invalidate_tlb_by_stream"
         => RemovedExactly({k \in DOMAIN entries :
                              entries[k].stream_id = ret'.args.stream_id})
    ]_vars

\* invalidate_by_vmid(1) on a full cache holding an entry of vmid 0 with
\* asid 1 and an entry of vmid 1: the first survives alone
C17_Witness ==
  /\ ret.op = "invalidate_tlb_by_vmid"
  /\ ret.args.vmid = 1
  /\ tlb_timestamp_counter = 2
  /\ DOMAIN entries = {KeyOf(TlbEntry(4096, 0, 1, 0, SIZE_4KB))}

(***************************************************************************)
(* C19 -- after invalidate_by_va(va, A) a lookup(va, s, A, v) misses for   *)
(* every stream s and vmid v, so the next translate of va with asid A is   *)
(* not a cache hit; and the call removes no entry whose asid differs from  *)
(* A.                                                                      *)
(***************************************************************************)
C19_MissAfterInvalidateVa ==
  /\ [](ret.op = "invalidate_tlb_by_va"
        => \A stream_id \in TlbStreamIDs, vmid \in TlbVMIDs :
             ~lookup(TLBState, ret.args.va, stream_id, ret.args.asid,
                     vmid).found)
  /\ [][ /\ ret'.op = "invalidate_tlb_by_va"
            => \A k \in DOMAIN entries :
                 entries[k].asid # ret'.args.asid
                 => (k \in DOMAIN entries' /\ entries'[k] = entries[k])
         /\ ( /\ ret.op = "invalidate_tlb_by_va"
              /\ TranslateStep
              /\ enabled
              /\ ret'.args.va = ret.args.va
              /\ ret'.args.asid = ret.args.asid )
            => ( /\ stats'.tlb_hits = stats.tlb_hits
                 /\ stats'.tlb_misses = stats.tlb_misses + 1 )
       ]_vars

\* invalidate_by_va(0x1000, 1) removed the 2 MiB entry of asid 1 that a
\* lookup of 0x1000 would have returned and kept the entry of asid 2, and the
\* translate of 0x1000 with asid 1 that followed missed and walked
C19_Witness ==
  /\ ret.op = "translate"
  /\ ret.args.va = 4096
  /\ ret.args.asid = 1
  /\ ret.result.success
  /\ stats.tlb_hits = 0
  /\ stats.tlb_misses = 1
  /\ tlb_timestamp_counter = 3
  /\ KeyOf(TlbEntry(4096, 1, 2, 1, SIZE_4KB)) \in DOMAIN entries
  /\ KeyOf(TlbEntry(0, 1, 1, 1, SIZE_2MB)) \notin DOMAIN entries

(***************************************************************************)
(* SpecFill: entries with pairwise distinct keys inserted one after the    *)
(* other into an empty cache, with no lookup in between.  ret.result is    *)
(* the sequence of the keys inserted so far.                               *)
(***************************************************************************)
MaxOverflow == 2

\* seven distinct keys, and an eighth entry whose key equals the first's
FillEntries ==
  TlbEntries \cup { TlbEntry(12288, 0, 1, 0, SIZE_4KB),
                    TlbEntry(16384, 0, 1, 0, SIZE_4KB),
                    TlbEntry(4097, 0, 1, 0, SIZE_4KB) }

InitFill ==
  /\ enabled = TRUE
  /\ stream_table = SetupStreamTable
  /\ context_descriptors = SetupContexts
  /\ entries = [k \in {} |-> 0]
  /\ lru_list = << >>
  /\ tlb_timestamp_counter = 0
  /\ hit_count = 0
  /\ miss_count = 0
  /\ command_queue = << >>
  /\ event_queue = << >>
  /\ stats = ZeroStatistics
  /\ timestamp_counter = 0
  /\ memory = TestMemory
  /\ ret = Call("TLB", << >>, << >>)

FillInsert ==
  \E entry \in FillEntries :
    /\ Len(ret.result) < TlbSize + MaxOverflow
    /\ \A i \in 1..Len(ret.result) : ret.result[i] # KeyOf(entry)
    /\ SetTLB(insert(TLBState, entry, TlbSize))
    /\ ret' = Call("insert", entry, Append(ret.result, KeyOf(entry)))
    /\ UNCHANGED <<cfgVars, command_queue, event_queue, stats,
                   timestamp_counter, memory>>

NextFill == FillInsert

SpecFill == InitFill /\ [][NextFill]_vars

(***************************************************************************)
(* C16 -- evicted on overflow: after N + k entries with pairwise distinct  *)
(* keys were inserted into an empty cache of capacity N with no lookup in  *)
(* between, the first k inserted keys are absent and exactly the last N    *)
(* inserted keys are present (while fewer than N were inserted, all are).  *)
(***************************************************************************)
C16_EvictedOnOverflow ==
  LET n == Len(ret.result)
      k == IF n > TlbSize THEN n - TlbSize ELSE 0
  IN  /\ \A i \in 1..k : ret.result[i] \notin DOMAIN entries
      /\ DOMAIN entries = {ret.result[i] : i \in (k + 1)..n}
      /\ Cardinality(DOMAIN entries) = n - k
      /\ hit_count + miss_count = 0

\* N + MaxOverflow inserts done: the first key is gone, the last is cached
C16_Witness ==
  /\ ret.op = "insert"
  /\ Len(ret.result) = TlbSize + MaxOverflow
  /\ ret.result[1] \notin DOMAIN entries
  /\ ret.result[Len(ret.result)] \in DOMAIN entries
  /\ Cardinality(DOMAIN entries) = TlbSize

(***************************************************************************)
(* C18 -- each command, once drained, has exactly the cache effect of the  *)
(* matching direct call: CMD_CFGI_STE(stream) = invalidate_tlb_by_stream;  *)
(* CMD_CFGI_CD(stream, asid) = invalidate_tlb_by_asid(asid), for every     *)
(* stream; CMD_CFGI_ALL = CMD_TLBI_NH_ALL = invalidate_tlb_all;            *)
(* CMD_TLBI_NH_ASID = invalidate_tlb_by_asid; CMD_TLBI_NH_VA =             *)
(* invalidate_tlb_by_va; CMD_TLBI_S12_VMALL = invalidate_tlb_by_vmid;      *)
(* CMD_SYNC and the prefetch commands leave the cache unchanged.  Besides  *)
(* the emptied queue the two routes differ only in commands_processed.     *)
(***************************************************************************)
\* the cache after the direct invalidation call that the command stands for
DirectCall(t, cmd) ==
  IF cmd.type = "CMD_CFGI_STE" THEN invalidate_by_stream(t, cmd.stream_id)
  ELSE IF cmd.type \in {"CMD_CFGI_CD", "CMD_TLBI_NH_ASID"}
  THEN invalidate_by_asid(t, cmd.asid)
  ELSE IF cmd.type \in {"CMD_CFGI_ALL", "CMD_TLBI_NH_ALL"}
  THEN invalidate_all(t)
  ELSE IF cmd.type = "CMD_TLBI_NH_VA"
  THEN invalidate_by_va(t, cmd.va, cmd.asid)
  ELSE IF cmd.type = "CMD_TLBI_S12_VMALL"
  THEN invalidate_by_vmid(t, cmd.vmid)
  ELSE t

RECURSIVE DirectCalls(_, _)
DirectCalls(t, queue) ==
  IF queue = << >> THEN t
  ELSE DirectCalls(DirectCall(t, Head(queue)), Tail(queue))

C18_CommandAsDirectCall ==
  [][ ret'.op = "process_commands"
      => LET t == DirectCalls(TLBState, command_queue)
         IN  /\ entries' = t.entries
             /\ lru_list' = t.lru_list
             /\ tlb_timestamp_counter' = t.timestamp_counter
             /\ hit_count' = t.hit_count
             /\ miss_count' = t.miss_count
             /\ stats' = [stats EXCEPT !.commands_processed =
                                         @ + Len(command_queue)]
             /\ UNCHANGED <<cfgVars, event_queue, timestamp_counter, memory>>
    ]_vars

\* a drained CMD_CFGI_CD naming stream 1 and asid 1 dropped the entry that
\* stream 0 had cached under asid 1 and kept the one under asid 2
C18_Witness ==
  /\ ret.op = "process_commands"
  /\ Len(ret.result) = 1
  /\ ret.result[1].type = "CMD_CFGI_CD"
  /\ ret.result[1].stream_id = 1
  /\ ret.result[1].asid = 1
  /\ DOMAIN entries = {TLBKey(4096, 0, 2, 0)}
  /\ stats.commands_processed = 1

(***************************************************************************)
(* SpecCfg: the two configuration stores of a fresh SMMU, written and read *)
(* under small and large stream ids and asids.                             *)
(***************************************************************************)
CfgStreams == {0, 65536, 2147483647}

CfgPairs == { <<0, 1>>, <<1, 0>>, <<65536, 1>>, <<2147483647, 65535>> }

CfgASIDs == {0, 1, 65535}

\* a valid record, and a record that differs from the default but is not
\* valid
CfgCDs == { CD_OK(1), [DefaultContextDescriptor EXCEPT !.asid = 7] }

ConfigureStreamCfg == ConfigureStreamTableEntryOver(CfgStreams, STEs)

ConfigureContextCfg ==
  \E p \in CfgPairs, cd \in CfgCDs :
    LET key == make_cd_key(p[1], p[2])
    IN
    /\ context_descriptors' =
         [k \in (DOMAIN context_descriptors) \cup {key} |->
            IF k = key THEN cd ELSE context_descriptors[k]]
    /\ ret' = Call("configure_context_descriptor",
                   [stream_id |-> p[1], asid |-> p[2], cd |-> cd], << >>)
    /\ UNCHANGED <<enabled, stream_table, tlbVars, command_queue,
                   event_queue, stats, timestamp_counter, memory>>

GetStreamTableEntry ==
  \E stream_id \in CfgStreams :
    /\ ret' = Call("get_stream_table_entry", [stream_id |-> stream_id],
                   get_stream_table_entry(stream_table, stream_id))
    /\ UNCHANGED <<cfgVars, tlbVars, command_queue, event_queue, stats,
                   timestamp_counter, memory>>

GetContextDescriptor ==
  \E p \in CfgPairs :
    /\ ret' = Call("get_context_descriptor",
                   [stream_id |-> p[1], asid |-> p[2]],
                   get_context_descriptor(context_descriptors, p[1], p[2]))
    /\ UNCHANGED <<cfgVars, tlbVars, command_queue, event_queue, stats,
                   timestamp_counter, memory>>

NextCfg ==
  \/ ConfigureStreamCfg
  \/ ConfigureContextCfg
  \/ GetStreamTableEntry
  \/ GetContextDescriptor

SpecCfg == Init /\ [][NextCfg]_vars

(***************************************************************************)
(* C20 -- get_stream_table_entry(s) returns the record most recently       *)
(* configured for exactly s and get_context_descriptor(s, a) the record    *)
(* most recently configured for exactly (s, a), each a default record with *)
(* valid = false when none was; configuring one key replaces its record    *)
(* wholesale and changes what is returned for no other stream and no other *)
(* (stream, asid) pair, small or large.                                    *)
(***************************************************************************)
\* what the two getters return in the current and in the next state
SteNow(s) == get_stream_table_entry(stream_table, s)

SteNext(s) == get_stream_table_entry(stream_table', s)

CdNow(s, a) == get_context_descriptor(context_descriptors, s, a)

CdNext(s, a) == get_context_descriptor(context_descriptors', s, a)

C20_ConfigStores ==
  /\ [](ret.op = "SMMU"
        => /\ \A s \in CfgStreams \cup {1} :
                SteNow(s) = DefaultStreamTableEntry /\ ~SteNow(s).valid
           /\ \A s \in CfgStreams \cup {1}, a \in CfgASIDs :
                CdNow(s, a) = DefaultContextDescriptor /\ ~CdNow(s, a).valid)
  /\ [][ /\ ret'.op = "configure_stream_table_entry"
            => /\ SteNext(ret'.args.stream_id) = ret'.args.ste
               /\ \A s \in CfgStreams \cup {1} :
                    s # ret'.args.stream_id => SteNext(s) = SteNow(s)
               /\ \A s \in CfgStreams \cup {1}, a \in CfgASIDs :
                    CdNext(s, a) = CdNow(s, a)
         /\ ret'.op = "configure_context_descriptor"
            => /\ CdNext(ret'.args.stream_id, ret'.args.asid) = ret'.args.cd
               /\ \A s \in CfgStreams \cup {1}, a \in CfgASIDs :
                    <<s, a>> # <<ret'.args.stream_id, ret'.args.asid>>
                    => CdNext(s, a) = CdNow(s, a)
               /\ \A s \in CfgStreams \cup {1} : SteNext(s) = SteNow(s)
         /\ ret'.op = "get_stream_table_entry"
            => /\ ret'.result = SteNow(ret'.args.stream_id)
               /\ UNCHANGED <<cfgVars, tlbVars, command_queue, event_queue,
                              stats, timestamp_counter, memory>>
         /\ ret'.op = "get_context_descriptor"
            => /\ ret'.result = CdNow(ret'.args.stream_id, ret'.args.asid)
               /\ UNCHANGED <<cfgVars, tlbVars, command_queue, event_queue,
                              stats, timestamp_counter, memory>>
       ]_vars

\* get_context_descriptor(0, 1) returned the default record although streams
\* 65536 and 1 hold valid records under asids 1 and 0, and stream 0 has a
\* stream table entry
C20_Witness ==
  /\ ret.op = "get_context_descriptor"
  /\ ret.args = [stream_id |-> 0, asid |-> 1]
  /\ ret.result = DefaultContextDescriptor
  /\ CdNow(65536, 1) = CD_OK(1)
  /\ CdNow(1, 0) = CD_OK(1)
  /\ CdNow(2147483647, 65535).asid = 7
  /\ SteNow(0) = STE_S1
  /\ SteNow(65536) = DefaultStreamTableEntry

(***************************************************************************)
(* SpecGran: translate on streams and contexts whose granule the walker    *)
(* rejects, next to streams and contexts it accepts.                       *)
(***************************************************************************)
GranStreamTable ==
  (0 :> STE_S1)
  @@ (1 :> [STE_S2 EXCEPT !.s2_granule = 13])
  @@ (2 :> [STE_S2 EXCEPT !.s2_granule = 0])
  @@ (3 :> [STE_S1S2 EXCEPT !.s2_granule = 13])
  @@ (4 :> STE_S2)

GranContexts ==
  (make_cd_key(0, 1) :> CD_OK(1))
  @@ (make_cd_key(0, 2) :> [CD_OK(2) EXCEPT !.translation_granule = 13])
  @@ (make_cd_key(0, 3) :> [CD_OK(3) EXCEPT !.translation_granule = 0])
  @@ (make_cd_key(3, 1) :> CD_OK(1))

GranRequests ==
  { Request(4096, 0, 1, 0),     \* stage 1, granule 12
    Request(4096, 0, 2, 0),     \* stage 1, granule 13
    Request(4096, 0, 3, 0),     \* stage 1, granule 0
    Request(4096, 1, 1, 0),     \* stage 2 only, s2_granule 13
    Request(4096, 2, 1, 0),     \* stage 2 only, s2_granule 0
    Request(4096, 3, 1, 0),     \* stage 1 succeeds, s2_granule 13
    Request(4096, 4, 1, 0) }    \* stage 2 only, s2_granule 12

InitGran ==
  /\ enabled = TRUE
  /\ stream_table = GranStreamTable
  /\ context_descriptors = GranContexts
  /\ entries = [k \in {} |-> 0]
  /\ lru_list = << >>
  /\ tlb_timestamp_counter = 0
  /\ hit_count = 0
  /\ miss_count = 0
  /\ command_queue = << >>
  /\ event_queue = << >>
  /\ stats = ZeroStatistics
  /\ timestamp_counter = 0
  /\ memory = TestMemory
  /\ ret = Call("enable", << >>, << >>)

TranslateGran == TranslateReq(GranRequests)

NextGran ==
  \/ TranslateGran
  \/ PopEvent
  \/ ResetStatistics

SpecGran == InitGran /\ [][NextGran]_vars

(***************************************************************************)
(* C21 -- granule rejection: when the context's translation granule is not *)
(* 12, 14 or 16, translate on an enabled, valid stage-1 stream fails with  *)
(* reason "Invalid granule size" without reading any descriptor from       *)
(* memory, emits a Translation event, adds one to translation_faults and   *)
(* caches nothing; the same holds for a stage-2 walk whose s2_granule is   *)
(* not 12, 14 or 16.                                                       *)
(***************************************************************************)
GoodGranule(granule_size) == granule_size \in {12, 14, 16}

\* the step is a translate that misses the cache and whose stage-1 walk
\* meets a rejected granule
Stage1GranuleStep ==
  LET ste == get_stream_table_entry(stream_table, ret'.args.stream_id)
      cd == get_context_descriptor(context_descriptors,
                                   ret'.args.stream_id, ret'.args.asid)
  IN  /\ TranslateStep /\ enabled /\ ~WouldHit(ret'.args)
      /\ ste.valid /\ ste.s1_enabled
      /\ cd.valid /\ ~GoodGranule(cd.translation_granule)

\* ... whose stage-2 walk (alone, or after a successful stage 1) meets one
Stage2GranuleStep ==
  LET ste == get_stream_table_entry(stream_table, ret'.args.stream_id)
      cd == get_context_descriptor(context_descriptors,
                                   ret'.args.stream_id, ret'.args.asid)
  IN  /\ TranslateStep /\ enabled /\ ~WouldHit(ret'.args)
      /\ ste.valid /\ ste.s2_enabled /\ ~GoodGranule(ste.s2_granule)
      /\ ste.s1_enabled
         => ( /\ cd.valid
              /\ walker_translate(memory, ret'.args.va,
                                  cd.translation_table_base,
                                  cd.translation_granule).success )

\* the descriptors read by the walk that met the rejected granule
RejectedWalkReads ==
  LET ste == get_stream_table_entry(stream_table, ret'.args.stream_id)
      cd == get_context_descriptor(context_descriptors,
                                   ret'.args.stream_id, ret'.args.asid)
  IN  IF Stage1GranuleStep
      THEN walker_reads(memory, ret'.args.va, cd.translation_table_base,
                        cd.translation_granule)
      ELSE walker_reads(memory,
                        IF ste.s1_enabled
                        THEN walker_translate(memory, ret'.args.va,
                                              cd.translation_table_base,
                                              cd.translation_granule
                                             ).physical_addr
                        ELSE ret'.args.va,
                        ste.s2_translation_table_base, ste.s2_granule)

\* what the claim says of the step besides the event
GranuleRejected ==
  /\ ~ret'.result.success
  /\ ret'.result.fault_reason = "Invalid granule size"
  /\ RejectedWalkReads = 0
  /\ stats'.translation_faults = stats.translation_faults + 1
  /\ entries' = entries
  /\ lru_list' = lru_list
  /\ tlb_timestamp_counter' = tlb_timestamp_counter

\* the step appended one Translation event to the queue
EventEmitted ==
  /\ Len(event_queue') = Len(event_queue) + 1
  /\ event_queue'[Len(event_queue')].fault_type = "TRANSLATION_FAULT"

\* C21 as stated: the event is emitted on every such translate
C21_GranuleRejectedWithEvent ==
  [][ (Stage1GranuleStep \/ Stage2GranuleStep)
      => (GranuleRejected /\ EventEmitted) ]_vars

\* C21 as amended: the event is emitted unless the event queue is full, in
\* which case it is dropped
C21_GranuleRejected ==
  [][ (Stage1GranuleStep \/ Stage2GranuleStep)
      => (GranuleRejected /\ OneTranslationEvent) ]_vars

\* the two-stage stream: stage 1 walked, stage 2 was rejected for its
\* granule; its event is the only one queued, nothing is cached
C21_Witness ==
  /\ ret.op = "translate"
  /\ ret.args.stream_id = 3
  /\ ret.result.fault_reason = "Invalid granule size"
  /\ stats.page_table_walks = 2
  /\ stats.translation_faults = 1
  /\ Len(event_queue) = 1
  /\ DOMAIN entries = {}

(***************************************************************************)
(* SpecWalk: the page-table walker over arbitrary small memories, and the  *)
(* command channel over arbitrary queues.                                  *)
(***************************************************************************)
\* descriptor values: invalid; table at 0x1000 (the table that holds it);
\* table at 0x2000; block or page at 0x1000; table beyond the memory
WalkDescriptors == {0, 4096 + 3, 8192 + 3, 4096 + 1, MEMORY_SIZE + 3}

\* the test tables, and every memory with descriptors in the first two slots
\* of the table at 0x1000
WalkMemories ==
  {TestMemory} \cup [{4096, 4104} -> WalkDescriptors]

WalkVAs == {0, 4096}

WalkGranules == {12, 13, 14, 16}

WalkCommands ==
  { DefaultCommand,
    [DefaultCommand EXCEPT !.type = "CMD_TLBI_NH_ALL"],
    [DefaultCommand EXCEPT !.type = "CMD_CFGI_STE", !.stream_id = 0] }

InitWalk ==
  /\ enabled = TRUE
  /\ stream_table = SetupStreamTable
  /\ context_descriptors = SetupContexts
  /\ entries = [k \in {} |-> 0]
  /\ lru_list = << >>
  /\ tlb_timestamp_counter = 0
  /\ hit_count = 0
  /\ miss_count = 0
  /\ command_queue = << >>
  /\ event_queue = << >>
  /\ stats = ZeroStatistics
  /\ timestamp_counter = 0
  /\ memory \in WalkMemories
  /\ ret = Call("set_memory_model", << >>, << >>)

\* PageTableWalker::translate called on the memory, from the table at TTB
WalkerTranslate ==
  \E va \in WalkVAs, granule_size \in WalkGranules :
    /\ ret' = Call("walker_translate",
                   [va |-> va, granule_size |-> granule_size],
                   [result |-> walker_translate(memory, va, TTB,
                                                granule_size),
                    reads |-> walker_reads(memory, va, TTB, granule_size)])
    /\ UNCHANGED <<cfgVars, tlbVars, command_queue, event_queue, stats,
                   timestamp_counter, memory>>

SubmitCommandWalk == SubmitCommandOver(WalkCommands)

NextWalk ==
  \/ WalkerTranslate
  \/ SubmitCommandWalk
  \/ ProcessCommands

SpecWalk == InitWalk /\ [][NextWalk]_vars

(***************************************************************************)
(* C22 -- all operations terminate: a page-table walk reads at most 4      *)
(* descriptors for granule 12 or 14 and at most 3 for granule 16 and then  *)
(* returns, for any memory contents, including table descriptors that      *)
(* point back to their own table; process_commands terminates with an      *)
(* empty queue, having run each queued command once, for any queue.        *)
(***************************************************************************)
C22_Terminates ==
  /\ [](ret.op = "walker_translate"
        => /\ ret.result.reads <= (IF ret.args.granule_size = 16 THEN 3
                                   ELSE 4)
           /\ ret.result.result.success
              \/ ret.result.result.fault_reason
                   \in {"Invalid granule size", "Failed to read descriptor",
                        "Translation fault: invalid descriptor",
                        "Translation fault: exceeded max level"})
  /\ [][ ret'.op = "process_commands"
         => /\ command_queue' = << >>
            /\ Len(ret'.result) = Len(command_queue) ]_vars

\* the table at 0x1000 points to itself: the granule-12 walk read it four
\* times and took the fourth descriptor for a page
C22_Witness ==
  /\ ret.op = "walker_translate"
  /\ ret.args.granule_size = 12
  /\ ret.args.va = 0
  /\ memory # TestMemory
  /\ memory[4096] = 4096 + 3
  /\ ret.result.reads = 4
  /\ ret.result.result.success
  /\ ret.result.result.physical_addr = 4096

(***************************************************************************)
(* C23 -- a lookup(va, s, a, v) returns an entry only if va lies inside    *)
(* that entry's own page, entry_base <= va < entry_base + page_size with   *)
(* entry_base the entry's va aligned down to its page_size, and the        *)
(* entry's stream_id, asid and vmid equal s, a, v; an entry stored with    *)
(* page_size 4 KiB is never returned for a va outside its 4 KiB page.      *)
(***************************************************************************)
\* va lies in the page of the entry
InOwnPage(entry, va) ==
  /\ get_page_base(entry.va, entry.page_size) <= va
  /\ va < get_page_base(entry.va, entry.page_size) + entry.page_size

\* in every reachable state, whatever a lookup would return is an entry of
\* the page and the tags asked for
C23_LookupInPage ==
  \A va \in TlbVAs \cup {8192}, stream_id \in TlbStreamIDs, asid \in ASIDs,
     vmid \in TlbVMIDs :
    LET r == lookup(TLBState, va, stream_id, asid, vmid)
    IN  r.found
        => /\ InOwnPage(r.entry, va)
           /\ r.entry.stream_id = stream_id
           /\ r.entry.asid = asid
           /\ r.entry.vmid = vmid

(***************************************************************************)
(* C24 -- invalidate_by_va(va, A) removes only entries with asid A whose   *)
(* own page (under the entry's own page_size) contains va: an entry with   *)
(* asid A whose page does not contain va stays cached.                     *)
(***************************************************************************)
C24_InvalidateVaOnlyOwnPage ==
  [][ ret'.op = "invalidate_tlb_by_va"
      => \A k \in DOMAIN entries :
           k \notin DOMAIN entries'
           => /\ entries[k].asid = ret'.args.asid
              /\ InOwnPage(entries[k], ret'.args.va)
    ]_vars

(***************************************************************************)
(* C25 -- cache structure invariant: in every reachable state the recency  *)
(* list contains exactly the keys of the entry map, each exactly once, so  *)
(* the map holds at most one entry per key (va_base, stream_id, asid,      *)
(* vmid), and evict_lru always removes an entry that is actually present.  *)
(***************************************************************************)
C25_CacheStructure ==
  /\ [] /\ \A i, j \in 1..Len(lru_list) :
             lru_list[i] = lru_list[j] => i = j
        /\ \A i \in 1..Len(lru_list) : lru_list[i] \in DOMAIN entries
        /\ \A k \in DOMAIN entries :
             /\ \E i \in 1..Len(lru_list) : lru_list[i] = k
             /\ KeyOf(entries[k]) = k
  /\ [][ ( /\ ret'.op \in {"insert", "translate"}
           /\ Cardinality(DOMAIN entries) = TlbSize
           /\ (DOMAIN entries') \ (DOMAIN entries) # {} )
         => /\ lru_list[Len(lru_list)] \in DOMAIN entries
            /\ (DOMAIN entries) \ (DOMAIN entries')
                 = {lru_list[Len(lru_list)]}
            /\ Cardinality(DOMAIN entries') = TlbSize
       ]_vars

\* an insert evicted from the full cache after a lookup hit had reordered
\* the recency list: the oldest entry, the one hit, is still cached
C25_Witness ==
  /\ ret.op = "insert"
  /\ tlb_timestamp_counter = TlbSize + 1
  /\ hit_count = 1
  /\ Cardinality(DOMAIN entries) = TlbSize
  /\ \E k \in DOMAIN entries : entries[k].timestamp = 0
  /\ lru_list[1] = KeyOf(ret.args)

(***************************************************************************)
(* SpecLru: inserts and lookups on an empty cache.  ret.result is the log  *)
(* of the uses: the key of every insert and of every lookup hit, in order. *)
(***************************************************************************)
\* four keys, and a fifth entry whose key equals the first's
LruEntries ==
  { TlbEntry(4096, 0, 1, 0, SIZE_4KB), TlbEntry(8192, 0, 1, 0, SIZE_4KB),
    TlbEntry(12288, 0, 1, 0, SIZE_4KB), TlbEntry(16384, 0, 1, 0, SIZE_4KB),
    TlbEntry(4097, 0, 1, 0, SIZE_4KB) }

\* lookups of two of the pages and of a page that is never cached
LruLookups ==
  { Request(4096, 0, 1, 0), Request(8192, 0, 1, 0), Request(20480, 0, 1, 0) }

InitLru ==
  /\ enabled = TRUE
  /\ stream_table = SetupStreamTable
  /\ context_descriptors = SetupContexts
  /\ entries = [k \in {} |-> 0]
  /\ lru_list = << >>
  /\ tlb_timestamp_counter = 0
  /\ hit_count = 0
  /\ miss_count = 0
  /\ command_queue = << >>
  /\ event_queue = << >>
  /\ stats = ZeroStatistics
  /\ timestamp_counter = 0
  /\ memory = TestMemory
  /\ ret = Call("TLB", << >>, << >>)

LruInsert ==
  \E entry \in LruEntries :
    /\ tlb_timestamp_counter < MaxInserts
    /\ SetTLB(insert(TLBState, entry, TlbSize))
    /\ ret' = Call("insert", entry, Append(ret.result, KeyOf(entry)))
    /\ UNCHANGED <<cfgVars, command_queue, event_queue, stats,
                   timestamp_counter, memory>>

LruLookup ==
  \E q \in LruLookups :
    LET r == lookup(TLBState, q.va, q.stream_id, q.asid, q.vmid)
    IN
    /\ hit_count + miss_count < MaxLookups
    /\ SetTLB(r.tlb)
    /\ ret' = Call("lookup", q,
                   IF r.found THEN Append(ret.result, KeyOf(r.entry))
                   ELSE ret.result)
    /\ UNCHANGED <<cfgVars, command_queue, event_queue, stats,
                   timestamp_counter, memory>>

NextLru ==
  \/ LruInsert
  \/ LruLookup

SpecLru == InitLru /\ [][NextLru]_vars

(***************************************************************************)
(* C26 -- eviction is true LRU: the entry evicted by an insert of a new    *)
(* key into a full cache is always the key whose most recent insert or     *)
(* lookup hit is the oldest among the cached keys.  A lookup hit protects  *)
(* the hit key from being the next victim, a lookup miss changes no        *)
(* recency, and inserting an entry whose key is already cached replaces    *)
(* it (size unchanged, nothing evicted) and makes it most recently used.   *)
(***************************************************************************)
\* the position in the log of the most recent use of key; 0 if never used
LastUse(log, key) ==
  LET uses == {i \in 1..Len(log) : log[i] = key}
  IN  IF uses = {} THEN 0 ELSE CHOOSE i \in uses : \A j \in uses : j <= i

\* the cached key whose most recent use is the oldest
LeastRecentlyUsed(log) ==
  CHOOSE k \in DOMAIN entries :
    \A k2 \in DOMAIN entries : LastUse(log, k) <= LastUse(log, k2)

C26_TrueLru ==
  /\ [](\A i, j \in 1..Len(lru_list) :
          i < j => LastUse(ret.result, lru_list[i])
                     > LastUse(ret.result, lru_list[j]))
  /\ [][ /\ ( /\ ret'.op = "insert"
              /\ KeyOf(ret'.args) \notin DOMAIN entries
              /\ Cardinality(DOMAIN entries) = TlbSize )
            => /\ (DOMAIN entries) \ (DOMAIN entries')
                    = {LeastRecentlyUsed(ret.result)}
               /\ KeyOf(ret'.args) \in DOMAIN entries'
         /\ ( /\ ret'.op = "insert"
              /\ KeyOf(ret'.args) \in DOMAIN entries )
            => /\ DOMAIN entries' = DOMAIN entries
               /\ entries'[KeyOf(ret'.args)].va = ret'.args.va
               /\ \A k \in DOMAIN entries :
                    k # KeyOf(ret'.args) => entries'[k] = entries[k]
               /\ lru_list'[1] = KeyOf(ret'.args)
         /\ ( /\ ret'.op = "lookup"
              /\ hit_count' = hit_count + 1 )
            => /\ entries' = entries
               /\ lru_list'[1] = ret'.result[Len(ret'.result)]
               /\ Cardinality(DOMAIN entries) > 1
                  => LeastRecentlyUsed(ret'.result)
                       # ret'.result[Len(ret'.result)]
         /\ ( /\ ret'.op = "lookup"
              /\ miss_count' = miss_count + 1 )
            => /\ entries' = entries
               /\ lru_list' = lru_list
               /\ ret'.result = ret.result
       ]_vars

\* the first key inserted was hit by a lookup once the cache was full, and
\* the insert of a new key that followed evicted the second key instead
C26_Witness ==
  /\ ret.op = "insert"
  /\ Len(ret.result) = TlbSize + 2
  /\ hit_count = 1
  /\ ret.result[TlbSize + 1] = ret.result[1]
  /\ ret.result[1] \in DOMAIN entries
  /\ ret.result[2] \notin DOMAIN entries
  /\ ret.result[Len(ret.result)] \in DOMAIN entries
  /\ Cardinality(DOMAIN entries) = TlbSize

(***************************************************************************)
(* C27 -- translate changes the cache contents only on overall success     *)
(* after a miss, when it inserts exactly one entry with page_size 4 KiB    *)
(* under key (va & ~0xFFF, stream_id, asid, vmid) holding the returned     *)
(* physical address and attributes; a failed translate, on any fault path, *)
(* leaves the set of cached entries and their recency order unchanged.     *)
(***************************************************************************)
\* the key under which translate caches the request of the step
RequestKey ==
  TLBKey(get_page_base(ret'.args.va, SIZE_4KB), ret'.args.stream_id,
         ret'.args.asid, ret'.args.vmid)

\* the step cached exactly one new entry, the one of the request
CachedTheRequest ==
  /\ (DOMAIN entries') \ (DOMAIN entries) = {RequestKey}
  /\ \A k \in DOMAIN entries' :
       k # RequestKey => (k \in DOMAIN entries /\ entries'[k] = entries[k])
  /\ entries'[RequestKey].va = ret'.args.va
  /\ entries'[RequestKey].page_size = SIZE_4KB
  /\ entries'[RequestKey].stream_id = ret'.args.stream_id
  /\ entries'[RequestKey].asid = ret'.args.asid
  /\ entries'[RequestKey].vmid = ret'.args.vmid
  /\ entries'[RequestKey].pa = ret'.result.physical_addr
  /\ entries'[RequestKey].memory_type = ret'.result.memory_type
  /\ entries'[RequestKey].permission = ret'.result.permission
  /\ entries'[RequestKey].cacheable = ret'.result.cacheable
  /\ entries'[RequestKey].shareable = ret'.result.shareable
  /\ lru_list'[1] = RequestKey

C27_CacheOnSuccessOnly ==
  [][ TranslateStep
      => IF ~ret'.result.success
         THEN entries' = entries /\ lru_list' = lru_list
         ELSE IF stats'.tlb_hits = stats.tlb_hits + 1
         THEN entries' = entries
         ELSE CachedTheRequest
    ]_vars

\* the stage-2-only stream was translated and cached after a translate that
\* failed and cached nothing
C27_Witness ==
  /\ ret.op = "translate"
  /\ ret.args.stream_id = 4
  /\ ret.result.success
  /\ stats.translation_faults = 1
  /\ stats.tlb_misses = 2
  /\ DOMAIN entries = {TLBKey(4096, 4, 1, 0)}
  /\ entries[TLBKey(4096, 4, 1, 0)].stage = "STAGE2"
  /\ entries[TLBKey(4096, 4, 1, 0)].pa = ret.result.physical_addr

(***************************************************************************)
(* SpecKeep: reconfiguration, disable and enable around translate, from    *)
(* the fixture of SpecInv once translate(0x1000, 0, 1, 0) and              *)
(* translate(0x0, 0, 1, 0) have filled the cache and reset_statistics has  *)
(* zeroed the counters.                                                    *)
(***************************************************************************)
Filled0 ==
  translate(Filled1.m, Filled1.tlb, TRUE, SetupStreamTable, SetupContexts,
            TestMemory, 0, 0, 1, 0)

InitKeep ==
  /\ enabled = TRUE
  /\ stream_table = SetupStreamTable
  /\ context_descriptors = SetupContexts
  /\ entries = Filled0.tlb.entries
  /\ lru_list = Filled0.tlb.lru_list
  /\ tlb_timestamp_counter = Filled0.tlb.timestamp_counter
  /\ hit_count = Filled0.tlb.hit_count
  /\ miss_count = Filled0.tlb.miss_count
  /\ command_queue = << >>
  /\ event_queue = Filled0.m.event_queue
  /\ stats = ZeroStatistics
  /\ timestamp_counter = Filled0.m.timestamp_counter
  /\ memory = TestMemory
  /\ ret = Call("reset_statistics", << >>, << >>)

\* stream 0 reconfigured, also with a record that is not valid
ConfigureStreamKeep ==
  ConfigureStreamTableEntryOver(ConfiguredStreams,
                                STEs \cup {DefaultStreamTableEntry})

\* context (0, 1) reconfigured, also with a record that is not valid
ConfigureContextKeep ==
  \E cd \in {CD_OK(1), DefaultContextDescriptor} :
    /\ context_descriptors' =
         [k \in (DOMAIN context_descriptors) \cup {make_cd_key(0, 1)} |->
            IF k = make_cd_key(0, 1) THEN cd ELSE context_descriptors[k]]
    /\ ret' = Call("configure_context_descriptor",
                   [stream_id |-> 0, asid |-> 1, cd |-> cd], << >>)
    /\ UNCHANGED <<enabled, stream_table, tlbVars, command_queue,
                   event_queue, stats, timestamp_counter, memory>>

TranslateKeep == TranslateOver({0, 4096}, ConfiguredStreams, {1}, VMIDs)

InvalidateKeep == InvalidateTlbByAsidOver({1})

NextKeep ==
  \/ Enable
  \/ Disable
  \/ ConfigureStreamKeep
  \/ ConfigureContextKeep
  \/ TranslateKeep
  \/ InvalidateKeep

SpecKeep == InitKeep /\ [][NextKeep]_vars

(***************************************************************************)
(* C28 -- configure_stream_table_entry, configure_context_descriptor,      *)
(* enable and disable never modify the cache: a translation cached before  *)
(* a reconfiguration of its stream or context (including replacing them by *)
(* invalid records) or before a disable/enable cycle is still returned     *)
(* afterwards as a cache hit with its old physical address, until an       *)
(* explicit invalidation or an LRU eviction removes it.                    *)
(***************************************************************************)
ConfigurationOps ==
  {"configure_stream_table_entry", "configure_context_descriptor", "enable",
   "disable"}

\* the cache holds the entry that an earlier translate with the arguments of
\* this step installed
RequestIsCached ==
  /\ RequestKey \in DOMAIN entries
  /\ entries[RequestKey].va = ret'.args.va

C28_ConfigurationKeepsCache ==
  [][ /\ ret'.op \in ConfigurationOps => UNCHANGED tlbVars
      /\ ( /\ ret.op \in ConfigurationOps
           /\ TranslateStep
           /\ enabled
           /\ RequestIsCached )
         => /\ ret'.result.success
            /\ stats'.tlb_hits = stats.tlb_hits + 1
            /\ stats'.page_table_walks = stats.page_table_walks
            /\ ret'.result.physical_addr = entries[RequestKey].pa
    ]_vars

(***************************************************************************)
(* SpecIso: translate under several streams, address spaces and VMs.  The  *)
(* context of asid 2 has page tables of its own, at 0x8000, which map VA   *)
(* page i to PA 0x200000 + i*0x1000.                                       *)
(***************************************************************************)
TTB2 == 32768

IsoMemory ==
  TestMemory @@
  [a \in {32768, 36864, 40960} \cup {45056 + 8 * i : i \in 0..15} |->
     IF a = 32768 THEN 36864 + 3
     ELSE IF a = 36864 THEN 40960 + 3
     ELSE IF a = 40960 THEN 45056 + 3
     ELSE (2097152 + ((a - 45056) \div 8) * 4096) + 1043]

IsoStreamTable == (0 :> STE_S1) @@ (4 :> STE_S2)

IsoContexts ==
  (make_cd_key(0, 1) :> CD_OK(1))
  @@ (make_cd_key(0, 2) :> [CD_OK(2) EXCEPT !.translation_table_base = TTB2])

IsoRequests ==
  { Request(4096, 0, 1, 0), Request(4096, 0, 2, 0), Request(4096, 0, 1, 1),
    Request(4096, 4, 1, 0), Request(0, 0, 2, 0) }

InitIso ==
  /\ enabled = TRUE
  /\ stream_table = IsoStreamTable
  /\ context_descriptors = IsoContexts
  /\ entries = [k \in {} |-> 0]
  /\ lru_list = << >>
  /\ tlb_timestamp_counter = 0
  /\ hit_count = 0
  /\ miss_count = 0
  /\ command_queue = << >>
  /\ event_queue = << >>
  /\ stats = ZeroStatistics
  /\ timestamp_counter = 0
  /\ memory = IsoMemory
  /\ ret = Call("enable", << >>, << >>)

\* translate of one of the requests; one call more than MaxTranslations, so
\* that a hit can follow two walks
TranslateIso ==
  \E q \in IsoRequests :
    LET r == translate(MState, TLBState, enabled, stream_table,
                       context_descriptors, memory, q.va, q.stream_id,
                       q.asid, q.vmid)
    IN
    /\ stats.total_translations <= MaxTranslations
    /\ stats' = r.m.stats
    /\ event_queue' = r.m.event_queue
    /\ timestamp_counter' = r.m.timestamp_counter
    /\ SetTLB(r.tlb)
    /\ ret' = Call("translate", q, r.result)
    /\ UNCHANGED <<cfgVars, command_queue, memory>>

NextIso ==
  \/ TranslateIso
  \/ InvalidateTlbByVmid
  \/ InvalidateTlbByStream

SpecIso == InitIso /\ [][NextIso]_vars

(***************************************************************************)
(* C29 -- isolation by tag: a cache hit for a request tagged (stream_id,   *)
(* asid, vmid) only ever returns an entry installed by an earlier          *)
(* successful translate that carried exactly the same stream_id, asid and  *)
(* vmid; a translation cached for one stream, address space or VM is never *)
(* served to a request with a different stream_id, asid or vmid.           *)
(***************************************************************************)
\* the physical pages that the tables of the address space map
PagesOf(stream_id, asid) ==
  IF stream_id = 0 /\ asid = 2
  THEN {2097152 + i * 4096 : i \in 0..15}
  ELSE {1048576 + i * 4096 : i \in 0..15}

SameTags(x, y) ==
  /\ x.stream_id = y.stream_id
  /\ x.asid = y.asid
  /\ x.vmid = y.vmid

C29_IsolationByTag ==
  /\ [](\A k \in DOMAIN entries :
          /\ SameTags(entries[k], k)
          /\ get_page_base(entries[k].pa, SIZE_4KB)
               \in PagesOf(k.stream_id, k.asid))
  /\ [][ /\ (TranslateStep /\ (DOMAIN entries') \ (DOMAIN entries) # {})
            => /\ ret'.result.success
               /\ \A k \in (DOMAIN entries') \ (DOMAIN entries) :
                    /\ SameTags(k, ret'.args)
                    /\ entries'[k].pa = ret'.result.physical_addr
         /\ \A k \in (DOMAIN entries') \cap (DOMAIN entries) :
              entries'[k] = entries[k]
         /\ (TranslateStep /\ stats'.tlb_hits = stats.tlb_hits + 1)
            => /\ WouldHit(ret'.args)
               /\ SameTags(lookup(TLBState, ret'.args.va,
                                  ret'.args.stream_id, ret'.args.asid,
                                  ret'.args.vmid).entry, ret'.args)
               /\ ret'.result.physical_addr
                    = lookup(TLBState, ret'.args.va, ret'.args.stream_id,
                             ret'.args.asid, ret'.args.vmid).entry.pa
               /\ get_page_base(ret'.result.physical_addr, SIZE_4KB)
                    \in PagesOf(ret'.args.stream_id, ret'.args.asid)
       ]_vars

\* asid 2 was served its own translation of 0x1000 from the cache, which
\* also holds the translation of 0x1000 that asid 1 installed
C29_Witness ==
  /\ ret.op = "translate"
  /\ ret.args = Request(4096, 0, 2, 0)
  /\ stats.tlb_hits = 1
  /\ ret.result.physical_addr = 2097152 + 4096
  /\ TLBKey(4096, 0, 1, 0) \in DOMAIN entries
  /\ entries[TLBKey(4096, 0, 1, 0)].pa = 1048576 + 4096
  /\ TLBKey(4096, 0, 2, 0) \in DOMAIN entries

(***************************************************************************)
(* C30 -- the command channel is processed only on explicit                *)
(* process_commands calls: submit_command alone changes neither the cache  *)
(* nor commands_processed, so a translate issued (on the enabled SMMU)     *)
(* after an invalidation command is submitted but before it is drained     *)
(* still hits the entry the command targets, and misses only after the     *)
(* drain.                                                                  *)
(***************************************************************************)
\* seq holds a CMD_TLBI_NH_ASID for the address space of the request
TargetsRequest(seq) ==
  \E i \in 1..Len(seq) : seq[i] = TlbiAsid(ret'.args.asid)

C30_DrainIsExplicit ==
  [][ /\ ret'.op = "submit_command"
         => /\ UNCHANGED tlbVars
            /\ stats' = stats
            /\ UNCHANGED <<cfgVars, event_queue, timestamp_counter, memory>>
      /\ ( /\ TranslateStep
           /\ enabled
           /\ RequestIsCached
           /\ TargetsRequest(command_queue) )
         => /\ ret'.result.success
            /\ stats'.tlb_hits = stats.tlb_hits + 1
            /\ stats'.tlb_misses = stats.tlb_misses
            /\ ret'.result.physical_addr = entries[RequestKey].pa
            /\ command_queue' = command_queue
      /\ ( /\ TranslateStep
           /\ enabled
           /\ ret.op = "process_commands"
           /\ TargetsRequest(ret.result) )
         => /\ stats'.tlb_hits = stats.tlb_hits
            /\ stats'.tlb_misses = stats.tlb_misses + 1
    ]_vars

\* the translation of asid 1 was cached, CMD_TLBI_NH_ASID(1) was submitted,
\* and the translate that followed hit the cache: the command is still
\* queued and not counted
C30_Witness ==
  /\ ret.op = "translate"
  /\ ret.args.asid = 1
  /\ ret.result.success
  /\ stats.tlb_hits = 1
  /\ stats.tlb_misses = 1
  /\ stats.commands_processed = 0
  /\ Len(command_queue) >= 1
  /\ command_queue[1] = TlbiAsid(1)
  /\ TLBKey(4096, 0, 1, 0) \in DOMAIN entries

(***************************************************************************)
(* SpecStage: every combination of stages.  Stream 0 stage 1 only, stream  *)
(* 1 both stages, stream 2 valid with no stage, stream 3 never configured, *)
(* stream 4 stage 2 only; contexts (0,1) and (1,1).  The stage-2 tables,   *)
(* at 0x8000, map IPA 0x1000 to PA 0x301000 and IPA 0x101000 (the stage-1  *)
(* output for VA 0x1000) to PA 0x401000, read-only, shareable, non-        *)
(* cacheable.                                                              *)
(***************************************************************************)
\* AP = 2 (read-only), SH = 2, AttrIndx = 2 (NORMAL_NC), bits 1 and 0
S2Flags == 651

StageMemory ==
  TestMemory @@
  [a \in {32768, 36864, 40960, 45056 + 8 * 1, 45056 + 8 * 257} |->
     IF a = 32768 THEN 36864 + 3
     ELSE IF a = 36864 THEN 40960 + 3
     ELSE IF a = 40960 THEN 45056 + 3
     ELSE IF a = 45056 + 8 * 1 THEN 3149824 + S2Flags
     ELSE 4198400 + S2Flags]

StageStreamTable ==
  (0 :> STE_S1)
  @@ (1 :> [STE_S1S2 EXCEPT !.s2_translation_table_base = TTB2])
  @@ (2 :> STE_NONE)
  @@ (4 :> [STE_S2 EXCEPT !.s2_translation_table_base = TTB2])

StageContexts ==
  (make_cd_key(0, 1) :> CD_OK(1)) @@ (make_cd_key(1, 1) :> CD_OK(1))

StageRequests ==
  { Request(4096, 0, 1, 0),       \* stage 1 only, walk succeeds
    Request(1048576, 0, 1, 0),    \* stage 1 only, walk faults
    Request(4096, 0, 2, 0),       \* stage 1 only, no context (0,2)
    Request(4096, 1, 1, 0),       \* both stages succeed
    Request(0, 1, 1, 0),          \* stage 1 succeeds, stage 2 faults
    Request(1048576, 1, 1, 0),    \* both stages, stage 1 faults
    Request(4096, 1, 2, 0),       \* both stages, no context (1,2)
    Request(4096, 2, 1, 0),       \* no stage enabled
    Request(4096, 3, 1, 0),       \* stream not configured
    Request(4096, 4, 1, 0),       \* stage 2 only, walk succeeds
    Request(0, 4, 1, 0) }         \* stage 2 only, walk faults

InitStage ==
  /\ enabled = TRUE
  /\ stream_table = StageStreamTable
  /\ context_descriptors = StageContexts
  /\ entries = [k \in {} |-> 0]
  /\ lru_list = << >>
  /\ tlb_timestamp_counter = 0
  /\ hit_count = 0
  /\ miss_count = 0
  /\ command_queue = << >>
  /\ event_queue = << >>
  /\ stats = ZeroStatistics
  /\ timestamp_counter = 0
  /\ memory = StageMemory
  /\ ret = Call("enable", << >>, << >>)

TranslateStage ==
  \E q \in StageRequests :
    LET r == translate(MState, TLBState, enabled, stream_table,
                       context_descriptors, memory, q.va, q.stream_id,
                       q.asid, q.vmid)
    IN
    /\ stats.total_translations < MaxTranslations
    /\ stats' = r.m.stats
    /\ event_queue' = r.m.event_queue
    /\ timestamp_counter' = r.m.timestamp_counter
    /\ SetTLB(r.tlb)
    /\ ret' = Call("translate", q, r.result)
    /\ UNCHANGED <<cfgVars, command_queue, memory>>

NextStage ==
  \/ Enable
  \/ Disable
  \/ TranslateStage
  \/ PopEvent

SpecStage == InitStage /\ [][NextStage]_vars

\* the stream table entry and the context descriptor translate fetches for
\* the request of the step
RequestSte == get_stream_table_entry(stream_table, ret'.args.stream_id)

RequestCd ==
  get_context_descriptor(context_descriptors, ret'.args.stream_id,
                         ret'.args.asid)

\* the stage-1 walk of the request of the step
RequestStage1Walk ==
  walker_translate(memory, ret'.args.va, RequestCd.translation_table_base,
                   RequestCd.translation_granule)

\* the step is a translate that missed the cache on the enabled SMMU
MissStep ==
  /\ TranslateStep
  /\ enabled
  /\ stats'.tlb_misses = stats.tlb_misses + 1

(***************************************************************************)
(* C31 -- page_table_walks counts walker invocations per translate: +0 on  *)
(* a cache hit, on a disabled unit, on an invalid stream entry, on an      *)
(* invalid context descriptor and when no stage is enabled; +1 for a       *)
(* stage-1-only or stage-2-only translate (whether the walk succeeds or    *)
(* faults); +2 when both stages are enabled and stage 1 succeeds; +1 when  *)
(* both are enabled and stage 1 faults.                                    *)
(***************************************************************************)
\* the walker invocations of a translate that missed, by configuration
WalksOfMiss ==
  IF ~RequestSte.valid THEN 0
  ELSE IF ~RequestSte.s1_enabled /\ ~RequestSte.s2_enabled THEN 0
  ELSE IF ~RequestSte.s1_enabled THEN 1
  ELSE IF ~RequestCd.valid THEN 0
  ELSE IF ~RequestSte.s2_enabled THEN 1
  ELSE IF RequestStage1Walk.success THEN 2
  ELSE 1

C31_WalksCounted ==
  [][ TranslateStep
      => stats'.page_table_walks = stats.page_table_walks +
           ( IF ~enabled THEN 0
             ELSE IF stats'.tlb_hits = stats.tlb_hits + 1 THEN 0
             ELSE WalksOfMiss )
    ]_vars

\* a both-stages translate whose stage 1 faulted (one walk) came after a
\* both-stages translate that succeeded (two walks)
C31_Witness ==
  /\ ret.op = "translate"
  /\ ret.args = Request(1048576, 1, 1, 0)
  /\ ~ret.result.success
  /\ stats.page_table_walks = 3
  /\ stats.tlb_misses = 2
  /\ TLBKey(4096, 1, 1, 0) \in DOMAIN entries

(***************************************************************************)
(* C32 -- stage composition: with both stages enabled, the physical        *)
(* address produced by the stage-1 walk is the input address of the        *)
(* stage-2 walk (from s2_translation_table_base with s2_granule), and the  *)
(* returned and cached physical address and attributes are those of the    *)
(* stage-2 result; if stage 1 fails, stage 2 is not attempted.  With only  *)
(* stage 2 enabled, the stage-2 walk runs directly on va and no context    *)
(* descriptor is consulted.                                                *)
(***************************************************************************)
\* the stage-2 walk of input address ipa for the stream of the request
RequestStage2Walk(ipa) ==
  walker_translate(memory, ipa, RequestSte.s2_translation_table_base,
                   RequestSte.s2_granule)

\* the call returned r and, when r is a success, cached it
ReturnedAndCached(r) ==
  /\ ret'.result = r
  /\ r.success
     => /\ CachedTheRequest
        /\ entries'[RequestKey].pa = r.physical_addr
        /\ entries'[RequestKey].memory_type = r.memory_type
        /\ entries'[RequestKey].permission = r.permission
        /\ entries'[RequestKey].cacheable = r.cacheable
        /\ entries'[RequestKey].shareable = r.shareable

C32_StageComposition ==
  [][ (MissStep /\ RequestSte.valid)
      => /\ ( /\ RequestSte.s1_enabled
              /\ RequestSte.s2_enabled
              /\ RequestCd.valid )
            => IF RequestStage1Walk.success
               THEN /\ ReturnedAndCached(
                         RequestStage2Walk(RequestStage1Walk.physical_addr))
                    /\ stats'.page_table_walks = stats.page_table_walks + 2
               ELSE /\ ret'.result = RequestStage1Walk
                    /\ stats'.page_table_walks = stats.page_table_walks + 1
                    /\ stats'.translation_faults
                         = stats.translation_faults + 1
                    /\ entries' = entries
         /\ ( /\ ~RequestSte.s1_enabled
              /\ RequestSte.s2_enabled )
            => /\ ReturnedAndCached(RequestStage2Walk(ret'.args.va))
               /\ stats'.page_table_walks = stats.page_table_walks + 1
    ]_vars

\* the both-stages stream translated VA 0x1000 through stage 1 (IPA
\* 0x101000) and stage 2 to PA 0x401000 with the stage-2 attributes, which
\* were cached; before it the stage-2-only stream, which has no context
\* descriptor, translated VA 0x1000 to PA 0x301000
C32_Witness ==
  /\ ret.op = "translate"
  /\ ret.args = Request(4096, 1, 1, 0)
  /\ ret.result.success
  /\ ret.result.physical_addr = 4198400
  /\ ret.result.permission = "READ_ONLY"
  /\ ret.result.memory_type = "NORMAL_NC"
  /\ stats.tlb_hits = 0
  /\ stats.page_table_walks = 3
  /\ entries[TLBKey(4096, 1, 1, 0)].pa = 4198400
  /\ entries[TLBKey(4096, 1, 1, 0)].permission = "READ_ONLY"
  /\ TLBKey(4096, 4, 1, 0) \in DOMAIN entries
  /\ entries[TLBKey(4096, 4, 1, 0)].pa = 3149824
  /\ make_cd_key(4, 1) \notin DOMAIN context_descriptors

(***************************************************************************)
(* SpecLeaf: the walker over page tables whose leaf sits at any level.     *)
(* Four tables at 0x10000, 0x20000, 0x30000, 0x40000; the descriptors are  *)
(* those on the path of three addresses under each granule.  write_pte     *)
(* then damages the path.                                                  *)
(***************************************************************************)
LeafTTB == 65536

\* 0x40605234 (index 1 / 3 / 5 at L1 / L2 / L3 of granule 12), 0x1234 and
\* 0x2234
LeafVAs == {1080054324, 4660, 8756}

LeafGranules == {12, 13, 14, 16}

\* the slots the walks of LeafVAs read in the four tables
LeafAddrs ==
  {65536,
   131072, 131080, 131088,
   196608, 196632, 196864, 197376,
   262144, 262152, 262184, 265224}

\* table 0..3 of the slot
LeafTableOf(a) == a \div 65536 - 1

\* output address of the leaf written in slot a
LeafOut(a) == 33554432 + (a \div 8) * 4096

\* descriptors at tables before leaf_table point to the next table; those
\* from leaf_table on are block descriptors (bit1 = 0) or have bit 1 set
\* (bit1 = 1), AF set, AttrIndx 4
LeafMemory(leaf_table, bit1) ==
  [a \in LeafAddrs |->
     IF LeafTableOf(a) < leaf_table
     THEN 65536 * (LeafTableOf(a) + 2) + 3
     ELSE LeafOut(a) + 1041 + 2 * bit1]

LeafMemories == {LeafMemory(t, b) : t \in 0..3, b \in 0..1}

\* write_pte arguments: the slots of the path of 0x40605234 under granule
\* 12, levels 0 to 3, and an address outside the memory
LeafWriteAddrs == {65536, 131080, 196632, 262184, MEMORY_SIZE}

\* bit 0 clear with other bits set; a table beyond the memory; a table in
\* the last page of the memory
LeafWriteDescs == {1026, MEMORY_SIZE + 3, MEMORY_SIZE - 4096 + 3}

InitLeaf ==
  /\ enabled = FALSE
  /\ stream_table = [k \in {} |-> DefaultStreamTableEntry]
  /\ context_descriptors = [k \in {} |-> DefaultContextDescriptor]
  /\ entries = [k \in {} |-> 0]
  /\ lru_list = << >>
  /\ tlb_timestamp_counter = 0
  /\ hit_count = 0
  /\ miss_count = 0
  /\ command_queue = << >>
  /\ event_queue = << >>
  /\ stats = ZeroStatistics
  /\ timestamp_counter = 0
  /\ memory \in LeafMemories
  /\ ret = Call("set_memory_model", << >>, << >>)

\* SimpleMemoryModel::write_pte
write_pte(mem, addr, pte) ==
  IF addr + 8 <= MEMORY_SIZE THEN (addr :> pte) @@ mem ELSE mem

WritePte ==
  \E addr \in LeafWriteAddrs, pte \in LeafWriteDescs :
    /\ memory' = write_pte(memory, addr, pte)
    /\ ret' = Call("write_pte", [addr |-> addr, pte |-> pte], << >>)
    /\ UNCHANGED <<cfgVars, tlbVars, command_queue, event_queue, stats,
                   timestamp_counter>>

\* PageTableWalker::translate from the table at LeafTTB
WalkLeaf ==
  \E va \in LeafVAs, granule_size \in LeafGranules :
    /\ ret' = Call("walker_translate",
                   [va |-> va, ttb |-> LeafTTB,
                    granule_size |-> granule_size],
                   [result |-> walker_translate(memory, va, LeafTTB,
                                                granule_size),
                    trace |-> walker_trace(memory, va, LeafTTB,
                                           granule_size)])
    /\ UNCHANGED <<cfgVars, tlbVars, command_queue, event_queue, stats,
                   timestamp_counter, memory>>

NextLeaf ==
  \/ WalkLeaf
  \/ WritePte

SpecLeaf == InitLeaf /\ [][NextLeaf]_vars

\* the last call was a walk under a granule the walker accepts
WalkDone ==
  /\ ret.op = "walker_translate"
  /\ ret.args.granule_size \in {12, 14, 16}

\* the bits [47:12] of a descriptor
OutAddr(desc) == desc - (desc % 4096)

\* the last descriptor the walk read, and its level
LastRead == ret.result.trace[Len(ret.result.trace)]

(***************************************************************************)
(* C33 -- walker result: at each level L the descriptor is read from       *)
(* table_base + 8 * ((va >> (g + (3 - L) * (g - 3))) mod 2^(g - 3)); on    *)
(* reaching a valid leaf at level L under granule g the walker returns     *)
(* success with physical_addr = out_addr + (va mod page_size(g, L)), where *)
(* page_size is, for g = 12: L0 512 MiB, L1 2 MiB, L2 4 KiB, L3 4 KiB; for *)
(* g = 14: L0 1 GiB, L1 32 MiB, L2 16 KiB, L3 16 KiB; for g = 16: L1 512   *)
(* MiB, L2 64 KiB, L3 64 KiB; a table descriptor makes out_addr the next   *)
(* table_base.                                                             *)
(***************************************************************************)
\* the page sizes the property lists
ListedPageSize(g, L) ==
  CASE g = 12 /\ L = 0 -> 536870912
    [] g = 12 /\ L = 1 -> 2097152
    [] g = 12 /\ L \in {2, 3} -> 4096
    [] g = 14 /\ L = 0 -> 1073741824
    [] g = 14 /\ L = 1 -> 33554432
    [] g = 14 /\ L \in {2, 3} -> 16384
    [] g = 16 /\ L = 1 -> 536870912
    [] g = 16 /\ L \in {2, 3} -> 65536

\* the slot index the property gives for level L
ListedIndex(va, g, L) == Shr(va, g + (3 - L) * (g - 3)) % (2 ^ (g - 3))

\* the descriptor is valid and a leaf at level L
ValidLeaf(desc, L) == desc % 2 = 1 /\ (L = 3 \/ (desc \div 2) % 2 = 0)

C33_WalkerResult ==
  WalkDone
  => /\ Len(ret.result.trace) >= 1
     /\ \A i \in 1..Len(ret.result.trace) :
          /\ ret.result.trace[i].level
               = (IF ret.args.granule_size = 16 THEN 1 ELSE 0) + i - 1
          /\ ret.result.trace[i].addr
               = (IF i = 1 THEN ret.args.ttb
                  ELSE OutAddr(ret.result.trace[i - 1].desc))
                 + 8 * ListedIndex(ret.args.va, ret.args.granule_size,
                                   ret.result.trace[i].level)
     /\ (LastRead.ok /\ ValidLeaf(LastRead.desc, LastRead.level))
        => /\ ret.result.result.success
           /\ ret.result.result.physical_addr
                = OutAddr(LastRead.desc)
                  + (ret.args.va % ListedPageSize(ret.args.granule_size,
                                                  LastRead.level))

\* granule 12, VA 0x40605234, block leaf at level 1: slot 1 of the second
\* table was read and the offset is the VA modulo 2 MiB
C33_Witness ==
  /\ WalkDone
  /\ ret.args.granule_size = 12
  /\ ret.args.va = 1080054324
  /\ Len(ret.result.trace) = 2
  /\ LastRead.addr = 131080
  /\ ret.result.result.success
  /\ ret.result.result.physical_addr = LeafOut(131080) + 21044

(***************************************************************************)
(* C34 -- a walk fails with reason "Translation fault: invalid descriptor" *)
(* as soon as it reads a descriptor whose bit 0 is clear, at any level and *)
(* whatever its other bits, and with reason "Failed to read descriptor"    *)
(* when the 8-byte descriptor read is refused because it would cross the   *)
(* end of the 256 MiB backing store; in both cases success is false and no *)
(* further level is read.                                                  *)
(***************************************************************************)
\* the walk stopped at read i and failed with the reason
FailedAtRead(i, reason) ==
  /\ i = Len(ret.result.trace)
  /\ ~ret.result.result.success
  /\ ret.result.result.fault_reason = reason

C34_WalkFaults ==
  WalkDone
  => \A i \in 1..Len(ret.result.trace) :
       /\ ret.result.trace[i].ok
            <=> ret.result.trace[i].addr + 8 <= 268435456
       /\ ~ret.result.trace[i].ok
            => FailedAtRead(i, "Failed to read descriptor")
       /\ (ret.result.trace[i].ok /\ ret.result.trace[i].desc % 2 = 0)
            => FailedAtRead(i, "Translation fault: invalid descriptor")

\* the level-2 slot holds 0x402 (bit 0 clear, bits 1 and 10 set): the walk
\* stopped there with the invalid-descriptor fault
C34_Witness ==
  /\ WalkDone
  /\ ret.args.granule_size = 12
  /\ Len(ret.result.trace) = 3
  /\ LastRead.level = 2
  /\ LastRead.ok
  /\ LastRead.desc = 1026
  /\ ~ret.result.result.success
  /\ ret.result.result.fault_reason = "Translation fault: invalid descriptor"

(***************************************************************************)
(* C35 -- a valid level-3 descriptor is always treated as a leaf whatever  *)
(* its bit 1, while at levels 0 to 2 bit 1 = 1 means table descriptor and  *)
(* bit 1 = 0 means block leaf.  Consequently every walk ends, at level 3   *)
(* at the latest, with either a success, an invalid-descriptor fault or a  *)
(* read failure, and no walk ever returns the reason "Translation fault:   *)
(* exceeded max level".                                                    *)
(***************************************************************************)
\* read i of the walk was served a descriptor with bit 0 set
ValidRead(i) ==
  ret.result.trace[i].ok /\ ret.result.trace[i].desc % 2 = 1

\* read i was the last one and the walk succeeded on it
LeafAtRead(i) ==
  /\ i = Len(ret.result.trace)
  /\ ret.result.result.success
  /\ ret.result.result.physical_addr
       = OutAddr(ret.result.trace[i].desc)
         + (ret.args.va % get_page_size(ret.result.trace[i].level,
                                        ret.args.granule_size))

C35_Level3IsLeaf ==
  /\ WalkDone
     => /\ \A i \in 1..Len(ret.result.trace) :
             /\ ret.result.trace[i].level <= 3
             /\ ValidRead(i)
                => IF ret.result.trace[i].level = 3
                   THEN LeafAtRead(i)
                   ELSE IF (ret.result.trace[i].desc \div 2) % 2 = 1
                   THEN /\ i < Len(ret.result.trace)
                        /\ ret.result.trace[i + 1].level
                             = ret.result.trace[i].level + 1
                   ELSE LeafAtRead(i)
        /\ \/ ret.result.result.success
           \/ ret.result.result.fault_reason
                \in {"Translation fault: invalid descriptor",
                     "Failed to read descriptor"}
  /\ ret.op = "walker_translate"
     => ret.result.result.fault_reason
          # "Translation fault: exceeded max level"

\* granule 12: three table descriptors, then a level-3 descriptor with bit 1
\* set, taken for a page
C35_Witness ==
  /\ WalkDone
  /\ ret.args.granule_size = 12
  /\ ret.args.va = 1080054324
  /\ Len(ret.result.trace) = 4
  /\ LastRead.level = 3
  /\ (LastRead.desc \div 2) % 2 = 1
  /\ ret.result.result.success
  /\ ret.result.result.physical_addr = LeafOut(262184) + 564

(***************************************************************************)
(* C36 -- for every granule g in {12, 14, 16} and every level L at which a *)
(* leaf can occur, the leaf's page_size(g, L) equals the span of virtual   *)
(* addresses selected by one table index at that level,                    *)
(* 2^(g + (3 - L) * (g - 3)); equivalently, every VA bit below the level's *)
(* index field is part of the leaf offset, so two distinct VAs resolved    *)
(* through the same leaf descriptor always yield distinct physical         *)
(* addresses.                                                              *)
(***************************************************************************)
\* the position of the lowest bit of the index field of level L
IndexShift(g, L) == g + (3 - L) * (g - 3)

\* the bits of va below bit n, for va < 2^31
BitsBelow(va, n) == IF n >= 31 THEN va ELSE va % (2 ^ n)

\* the walk ended on a leaf whose page size is the span of one index and
\* whose offset holds every VA bit below the index field
C36_LeafSpansIndex ==
  (WalkDone /\ ret.result.result.success)
  => /\ IndexShift(ret.args.granule_size, LastRead.level) < 31
     /\ get_page_size(LastRead.level, ret.args.granule_size)
          = 2 ^ IndexShift(ret.args.granule_size, LastRead.level)
     /\ ret.result.result.physical_addr
          = OutAddr(LastRead.desc)
            + BitsBelow(ret.args.va,
                        IndexShift(ret.args.granule_size, LastRead.level))

(***************************************************************************)
(* SpecStat: the streams, contexts and requests of SpecStage, with enable, *)
(* disable, pop_event and reset_statistics.                                *)
(***************************************************************************)
TranslateStat == TranslateReq(StageRequests)

NextStat ==
  \/ Enable
  \/ Disable
  \/ TranslateStat
  \/ PopEvent
  \/ ResetStatistics

SpecStat == InitStage /\ [][NextStat]_vars

(***************************************************************************)
(* C37 -- statistics invariants, in every reachable state since            *)
(* construction or the last reset_statistics: every translate increments   *)
(* total_translations by 1; every translate on an enabled unit increments  *)
(* exactly one of tlb_hits and tlb_misses by 1, so tlb_hits + tlb_misses   *)
(* <= total_translations with equality when no translate ran while         *)
(* disabled; and translation_faults <= tlb_misses.                         *)
(***************************************************************************)
\* translates not counted as hit or miss
Unprobed(st) == st.total_translations - (st.tlb_hits + st.tlb_misses)

C37_StatisticsInvariants ==
  /\ [](/\ stats.tlb_hits + stats.tlb_misses <= stats.total_translations
        /\ stats.translation_faults <= stats.tlb_misses)
  /\ [][ IF TranslateStep
         THEN /\ stats'.total_translations = stats.total_translations + 1
              /\ enabled
                 => /\ \/ /\ stats'.tlb_hits = stats.tlb_hits + 1
                          /\ stats'.tlb_misses = stats.tlb_misses
                       \/ /\ stats'.tlb_hits = stats.tlb_hits
                          /\ stats'.tlb_misses = stats.tlb_misses + 1
                    /\ Unprobed(stats') = Unprobed(stats)
         ELSE \/ Unprobed(stats') = Unprobed(stats)
              \/ (ret'.op = "reset_statistics" /\ Unprobed(stats') = 0)
       ]_vars

\* after a reset: a translate while disabled, then, enabled again, a miss
\* that faulted
C37_Witness ==
  /\ ret.op = "translate"
  /\ enabled
  /\ ~ret.result.success
  /\ stats.total_translations = 2
  /\ stats.tlb_hits = 0
  /\ stats.tlb_misses = 1
  /\ stats.translation_faults = 1
  /\ hit_count + miss_count = 2

(***************************************************************************)
(* SpecFifo: the event channel.  The streams, contexts and requests of     *)
(* SpecEvt; translates until the cache was probed MaxTranslations + 1      *)
(* times, so that faults are raised before, while and after the queue is   *)
(* full; has_events, pop_event and reset_statistics at any time.           *)
(***************************************************************************)
TranslateFifo ==
  \E q \in EvtRequests :
    LET r == translate(MState, TLBState, enabled, stream_table,
                       context_descriptors, memory, q.va, q.stream_id,
                       q.asid, q.vmid)
    IN
    /\ stats.total_translations <= MaxTranslations
    /\ hit_count + miss_count <= MaxTranslations
    /\ stats' = r.m.stats
    /\ event_queue' = r.m.event_queue
    /\ timestamp_counter' = r.m.timestamp_counter
    /\ SetTLB(r.tlb)
    /\ ret' = Call("translate", q, r.result)
    /\ UNCHANGED <<cfgVars, command_queue, memory>>

\* SMMU::has_events
has_events(queue) == queue # << >>

HasEvents ==
  /\ ret' = Call("has_events", << >>, has_events(event_queue))
  /\ UNCHANGED <<cfgVars, tlbVars, command_queue, event_queue, stats,
                 timestamp_counter, memory>>

NextFifo ==
  \/ TranslateFifo
  \/ HasEvents
  \/ PopEvent
  \/ ResetStatistics

SpecFifo == InitEvt /\ [][NextFifo]_vars

(***************************************************************************)
(* C38 -- events are delivered first-in first-out with a monotonic         *)
(* timestamp: pop_event returns the events in the order in which the       *)
(* faults were raised, and the timestamps of successively popped events    *)
(* are strictly increasing (consecutive integers starting at 0, unaffected *)
(* by dropped events, by pops and by reset_statistics).                    *)
(***************************************************************************)
\* the number of events delivered so far, given that the queued events
\* carry the timestamps up to the counter
Delivered(queue, counter) == counter - Len(queue)

\* the step is a pop_event that found an event
EventPopStep == ret'.op = "pop_event" /\ event_queue # << >>

ResetRequests ==
  { Request(4096, 1, 1, 0), Request(4096, 0, 1, 0),
    Request(1048576, 0, 1, 0) }

TranslateReset == TranslateReq(ResetRequests)

NextReset ==
  \/ Enable
  \/ Disable
  \/ TranslateReset
  \/ SubmitCommandInv
  \/ ProcessCommands
  \/ ResetStatistics

SpecReset == InitStage /\ [][NextReset]_vars

(***************************************************************************)
(* C40 -- reset_statistics sets all eight counters (total_translations,    *)
(* tlb_hits, tlb_misses, page_table_walks, translation_faults,             *)
(* permission_faults, commands_processed, events_generated) to 0 and       *)
(* changes nothing else: cache contents and recency, stream and context    *)
(* configuration, queued commands, queued events and the enabled flag are  *)
(* unchanged, so a translation cached before the reset is still a hit      *)
(* after it.                                                               *)
(***************************************************************************)
C40_ResetStatisticsFrame ==
  [][ /\ ret'.op = "reset_statistics"
         => /\ DOMAIN stats'
                 = {"total_translations", "tlb_hits", "tlb_misses",
                    "page_table_walks", "translation_faults",
                    "permission_faults", "commands_processed",
                    "events_generated"}
            /\ \A c \in DOMAIN stats' : stats'[c] = 0
            /\ entries' = entries
            /\ lru_list' = lru_list
            /\ tlb_timestamp_counter' = tlb_timestamp_counter
            /\ stream_table' = stream_table
            /\ context_descriptors' = context_descriptors
            /\ command_queue' = command_queue
            /\ event_queue' = event_queue
            /\ timestamp_counter' = timestamp_counter
            /\ enabled' = enabled
            /\ memory' = memory
      /\ ( /\ ret.op = "reset_statistics"
           /\ TranslateStep
           /\ enabled
           /\ RequestIsCached )
         => /\ ret'.result.success
            /\ ret'.result.physical_addr = entries[RequestKey].pa
            /\ stats'.tlb_hits = 1
            /\ stats'.tlb_misses = 0
            /\ stats'.total_translations = 1
    ]_vars

\* the both-stages translation was cached, a command was queued, the
\* statistics were reset, and the same translate is a hit counted from zero
C40_Witness ==
  /\ ret.op = "translate"
  /\ ret.args = Request(4096, 1, 1, 0)
  /\ ret.result.success
  /\ ret.result.physical_addr = 4198400
  /\ stats = [ZeroStatistics EXCEPT !.total_translations = 1, !.tlb_hits = 1]
  /\ hit_count = 1
  /\ miss_count = 1
  /\ command_queue = << TlbiAsid(1) >>

====
